---- MODULE Spec2Model ----
(***************************************************************************)
(* Interview orchestrator of DataReady.io: the session state machine, the  *)
(* session model and the flow controller (ask / listen / process /         *)
(* evaluate / decide), together with the collaborators the orchestrator    *)
(* is wired to (AI reasoning layer, audio processor, evaluation engine).   *)
(***************************************************************************)
EXTENDS Integers, Sequences, FiniteSets, TLC

VARIABLES
    cfg,        \* which collaborators the orchestrator was constructed with
    sessions,   \* InterviewOrchestrator._sessions : session id -> session
    callbacks,  \* InterviewOrchestrator._state_change_callbacks
    tasks,      \* the calls suspended at an await of a collaborator
    last        \* the last call made on the orchestrator and its outcome

vars == <<cfg, sessions, callbacks, tasks, last>>

----------------------------------------------------------------------------
(* Bounds of the exploration *)

\* answers a candidate gives in one interview (Spec)
MaxAnswers == 2
\* difficulty adaptations applied to one session (SpecDifficulty)
MaxAdaptations == 4
\* answers a candidate gives in one interview (SpecFollowup)
MaxFollowupAnswers == 3
\* questions the callers ask for in one interview (SpecMachine)
MaxAsked == 2
\* state-change observers that get registered
MaxObservers == 2
\* answers a candidate gives in one of two interviews (SpecPair)
MaxPairAnswers == 1
\* answers of one interview that call for no follow-up (SpecFair)
MaxSolidAnswers == 2


----------------------------------------------------------------------------
(* Python's None for optional strings, records and ids *)

None == "None"
NoRec == <<>>
NoSession == <<>>

----------------------------------------------------------------------------
(* InterviewState and the transition table *)

InterviewState ==
    {"setup", "ready", "asking", "listening", "processing", "evaluating",
     "deciding", "complete", "generating_report", "finished", "paused",
     "error", "cancelled"}

\* the table without an exit to complete while a response is evaluated
TransitionsWithoutEarlyExit ==
    [st \in InterviewState |->
        CASE st = "setup"             -> {"ready", "cancelled"}
          [] st = "ready"             -> {"asking", "cancelled", "complete"}
          [] st = "asking"            -> {"listening", "paused", "error", "complete"}
          [] st = "listening"         -> {"processing", "paused", "error", "complete"}
          [] st = "processing"        -> {"evaluating", "error", "complete"}
          [] st = "evaluating"        -> {"deciding", "error"}
          [] st = "deciding"          -> {"asking", "complete", "error"}
          [] st = "complete"          -> {"generating_report"}
          [] st = "generating_report" -> {"finished", "error"}
          [] st = "paused"            -> {"asking", "listening", "cancelled", "complete"}
          [] st = "error"             -> {"cancelled"}
          [] st = "finished"          -> {}
          [] st = "cancelled"         -> {}]

\* the table with a way back to processing while the next action is
\* decided
TransitionsWithReentry ==
    [st \in InterviewState |->
        CASE st = "setup"             -> {"ready", "cancelled"}
          [] st = "ready"             -> {"asking", "cancelled", "complete"}
          [] st = "asking"            -> {"listening", "paused", "error", "complete"}
          [] st = "listening"         -> {"processing", "paused", "error", "complete"}
          [] st = "processing"        -> {"evaluating", "error", "complete"}
          [] st = "evaluating"        -> {"deciding", "error", "complete"}
          [] st = "deciding"          -> {"asking", "complete", "error", "processing"}
          [] st = "complete"          -> {"generating_report"}
          [] st = "generating_report" -> {"finished", "error"}
          [] st = "paused"            -> {"asking", "listening", "cancelled", "complete"}
          [] st = "error"             -> {"cancelled"}
          [] st = "finished"          -> {}
          [] st = "cancelled"         -> {}]

VALID_TRANSITIONS ==
    [st \in InterviewState |->
        CASE st = "setup"             -> {"ready", "cancelled"}
          [] st = "ready"             -> {"asking", "cancelled", "complete"}
          [] st = "asking"            -> {"listening", "paused", "error", "complete"}
          [] st = "listening"         -> {"processing", "paused", "error", "complete"}
          [] st = "processing"        -> {"evaluating", "error", "complete"}
          [] st = "evaluating"        -> {"deciding", "error", "complete"}
          [] st = "deciding"          -> {"asking", "complete", "error"}
          [] st = "complete"          -> {"generating_report"}
          [] st = "generating_report" -> {"finished", "error"}
          [] st = "paused"            -> {"asking", "listening", "cancelled", "complete"}
          [] st = "error"             -> {"cancelled"}
          [] st = "finished"          -> {}
          [] st = "cancelled"         -> {}]

----------------------------------------------------------------------------
(* Roles, modes, setup *)

Roles ==
    {"junior_data_engineer", "mid_data_engineer", "senior_data_engineer",
     "staff_data_engineer", "principal_data_engineer"}

Modes == {"structured", "structured_followup", "stress"}

\* InterviewSetup.max_questions : Field(ge=5, le=15)
MinQuestions == 5
MaxQuestionsLimit == 15

\* difficulty_map of create_session
difficulty_map ==
    [r \in Roles |->
        CASE r = "junior_data_engineer"    -> 3
          [] r = "mid_data_engineer"       -> 5
          [] r = "senior_data_engineer"    -> 7
          [] r = "staff_data_engineer"     -> 8
          [] r = "principal_data_engineer" -> 9]

\* The slice of SKILL_CATALOG the model carries, in catalog order, with the
\* applicable_roles of each entry.
CatalogOrder ==
    <<"sql_basics", "sql_aggregations", "sql_optimization_basics",
      "data_platform_design", "data_governance">>

applicable_roles ==
    [k \in {CatalogOrder[i] : i \in 1..Len(CatalogOrder)} |->
        CASE k = "sql_basics"              -> {"junior_data_engineer"}
          [] k = "sql_aggregations"        -> {"junior_data_engineer", "mid_data_engineer"}
          [] k = "sql_optimization_basics" -> {"mid_data_engineer", "senior_data_engineer"}
          [] k = "data_platform_design"    -> {"senior_data_engineer", "staff_data_engineer"}
          [] k = "data_governance"         -> {"staff_data_engineer", "principal_data_engineer"}]

Range(seq) == {seq[i] : i \in 1..Len(seq)}

get_skills_for_role(role) ==
    LET Applies(k) == role \in applicable_roles[k]
    IN  SelectSeq(CatalogOrder, Applies)

----------------------------------------------------------------------------
(* Question texts.  A text is the string the program handles; Words is     *)
(* str.split() of it, Canon is lower() followed by the removal of every    *)
(* character that is neither a word character nor whitespace.              *)

Words(text) ==
    CASE text = "How do you handle NULL values in SQL aggregations?" ->
          <<"How", "do", "you", "handle", "NULL", "values", "in", "SQL", "aggregations?">>
      [] text = "How would you implement idempotent data loading?" ->
          <<"How", "would", "you", "implement", "idempotent", "data", "loading?">>
      [] text = "How would you optimize a slow-running Spark job?" ->
          <<"How", "would", "you", "optimize", "a", "slow-running", "Spark", "job?">>
      [] text = "Explain the CAP theorem and how it applies to data systems." ->
          <<"Explain", "the", "CAP", "theorem", "and", "how", "it", "applies", "to", "data", "systems.">>
      [] text = "How would you implement data lineage tracking?" ->
          <<"How", "would", "you", "implement", "data", "lineage", "tracking?">>
      [] text = "How do you design reliable DAGs in Airflow?" ->
          <<"How", "do", "you", "design", "reliable", "DAGs", "in", "Airflow?">>
      [] text = "What is ETL and why is it important in data engineering?" ->
          <<"What", "is", "ETL", "and", "why", "is", "it", "important", "in", "data", "engineering?">>
      [] text = "How would you handle duplicate records in a dataset?" ->
          <<"How", "would", "you", "handle", "duplicate", "records", "in", "a", "dataset?">>
      [] text = "What is database normalization and why is it important?" ->
          <<"What", "is", "database", "normalization", "and", "why", "is", "it", "important?">>
      [] text = "What's the difference between DELETE and TRUNCATE in SQL?" ->
          <<"What's", "the", "difference", "between", "DELETE", "and", "TRUNCATE", "in", "SQL?">>
      [] text = "How do you use GROUP BY and HAVING clauses in SQL?" ->
          <<"How", "do", "you", "use", "GROUP", "BY", "and", "HAVING", "clauses", "in", "SQL?">>
      [] text = "What is a primary key vs a foreign key?" ->
          <<"What", "is", "a", "primary", "key", "vs", "a", "foreign", "key?">>
      [] text = "What strategies would you use to optimize a slow Spark job?" ->
          <<"What", "strategies", "would", "you", "use", "to", "optimize", "a", "slow", "Spark", "job?">>
      [] text = "Describe how you would implement incremental data loading." ->
          <<"Describe", "how", "you", "would", "implement", "incremental", "data", "loading.">>
      [] text = "What is Apache Airflow and how do you design DAGs?" ->
          <<"What", "is", "Apache", "Airflow", "and", "how", "do", "you", "design", "DAGs?">>
      [] text = "How do you handle schema evolution in a data pipeline?" ->
          <<"How", "do", "you", "handle", "schema", "evolution", "in", "a", "data", "pipeline?">>
      [] text = "Describe your approach to data quality testing." ->
          <<"Describe", "your", "approach", "to", "data", "quality", "testing.">>
      [] text = "How would you partition data in a data lake?" ->
          <<"How", "would", "you", "partition", "data", "in", "a", "data", "lake?">>
      [] text = "How would you design a real-time analytics system?" ->
          <<"How", "would", "you", "design", "a", "real-time", "analytics", "system?">>
      [] text = "Explain the CAP theorem and its implications for data systems." ->
          <<"Explain", "the", "CAP", "theorem", "and", "its", "implications", "for", "data", "systems.">>
      [] text = "How would you implement data observability at scale?" ->
          <<"How", "would", "you", "implement", "data", "observability", "at", "scale?">>
      [] text = "Describe your approach to managing technical debt in pipelines." ->
          <<"Describe", "your", "approach", "to", "managing", "technical", "debt", "in", "pipelines.">>
      [] text = "How do you design for both OLTP and OLAP workloads?" ->
          <<"How", "do", "you", "design", "for", "both", "OLTP", "and", "OLAP", "workloads?">>
      [] text = "Explain different caching strategies for data applications." ->
          <<"Explain", "different", "caching", "strategies", "for", "data", "applications.">>
      [] text = "Describe your approach to implementing data governance at scale." ->
          <<"Describe", "your", "approach", "to", "implementing", "data", "governance", "at", "scale.">>
      [] text = "How do you balance technical debt with feature delivery?" ->
          <<"How", "do", "you", "balance", "technical", "debt", "with", "feature", "delivery?">>
      [] text = "What's your process for evaluating new data technologies?" ->
          <<"What's", "your", "process", "for", "evaluating", "new", "data", "technologies?">>
      [] text = "Describe your approach to data mesh implementation." ->
          <<"Describe", "your", "approach", "to", "data", "mesh", "implementation.">>
      [] text = "What metrics do you use to measure platform success?" ->
          <<"What", "metrics", "do", "you", "use", "to", "measure", "platform", "success?">>
      [] text = "How do you create a 3-year technical roadmap?" ->
          <<"How", "do", "you", "create", "a", "3-year", "technical", "roadmap?">>
      [] text = "How would you evaluate and recommend a new data technology?" ->
          <<"How", "would", "you", "evaluate", "and", "recommend", "a", "new", "data", "technology?">>
      [] text = "What's your vision for the future of data engineering?" ->
          <<"What's", "your", "vision", "for", "the", "future", "of", "data", "engineering?">>
      [] text = "How do you balance innovation with operational stability?" ->
          <<"How", "do", "you", "balance", "innovation", "with", "operational", "stability?">>
      [] text = "Describe your experience with M&A data integration." ->
          <<"Describe", "your", "experience", "with", "M&A", "data", "integration.">>
      [] text = "How do you handle organization-wide data security concerns?" ->
          <<"How", "do", "you", "handle", "organization-wide", "data", "security", "concerns?">>
      [] text = "What's your approach to building a center of excellence?" ->
          <<"What's", "your", "approach", "to", "building", "a", "center", "of", "excellence?">>
      [] text = "Can you elaborate on that?" ->
          <<"Can", "you", "elaborate", "on", "that?">>
      [] text = "Can you provide a specific example from your experience?" ->
          <<"Can", "you", "provide", "a", "specific", "example", "from", "your", "experience?">>
      [] text = "Could you explain that concept in simpler terms?" ->
          <<"Could", "you", "explain", "that", "concept", "in", "simpler", "terms?">>
      [] text = "What would you do differently if the scale was 10x larger?" ->
          <<"What", "would", "you", "do", "differently", "if", "the", "scale", "was", "10x", "larger?">>
      [] text = "How do you tune a slow Spark job?" ->
          <<"How", "do", "you", "tune", "a", "slow", "Spark", "job?">>
      [] text = "HOW do you handle null values in SQL aggregations" ->
          <<"HOW", "do", "you", "handle", "null", "values", "in", "SQL", "aggregations">>
      [] text = "Which index would you add, and why?" ->
          <<"Which", "index", "would", "you", "add,", "and", "why?">>
      [] text = "{\"question\": \"Why?\"}" ->
          <<"{\"question\":", "\"Why?\"}">>
      [] text = " [probe] Why?" ->
          <<"[probe]", "Why?">>
      [] text = "" ->
          <<>>

Canon(word) ==
    CASE word = "\"Why?\"}" -> "why"
      [] word = "3-year" -> "3year"
      [] word = "Airflow" -> "airflow"
      [] word = "Airflow?" -> "airflow"
      [] word = "Apache" -> "apache"
      [] word = "BY" -> "by"
      [] word = "CAP" -> "cap"
      [] word = "Can" -> "can"
      [] word = "Could" -> "could"
      [] word = "DAGs" -> "dags"
      [] word = "DAGs?" -> "dags"
      [] word = "DELETE" -> "delete"
      [] word = "Describe" -> "describe"
      [] word = "ETL" -> "etl"
      [] word = "Explain" -> "explain"
      [] word = "GROUP" -> "group"
      [] word = "HAVING" -> "having"
      [] word = "HOW" -> "how"
      [] word = "How" -> "how"
      [] word = "M&A" -> "ma"
      [] word = "NULL" -> "null"
      [] word = "OLAP" -> "olap"
      [] word = "OLTP" -> "oltp"
      [] word = "SQL" -> "sql"
      [] word = "SQL?" -> "sql"
      [] word = "Spark" -> "spark"
      [] word = "TRUNCATE" -> "truncate"
      [] word = "What" -> "what"
      [] word = "What's" -> "whats"
      [] word = "Which" -> "which"
      [] word = "Why?" -> "why"
      [] word = "[probe]" -> "probe"
      [] word = "add," -> "add"
      [] word = "aggregations?" -> "aggregations"
      [] word = "applications." -> "applications"
      [] word = "concerns?" -> "concerns"
      [] word = "dataset?" -> "dataset"
      [] word = "delivery?" -> "delivery"
      [] word = "engineering?" -> "engineering"
      [] word = "excellence?" -> "excellence"
      [] word = "experience?" -> "experience"
      [] word = "implementation." -> "implementation"
      [] word = "important?" -> "important"
      [] word = "integration." -> "integration"
      [] word = "job?" -> "job"
      [] word = "key?" -> "key"
      [] word = "lake?" -> "lake"
      [] word = "larger?" -> "larger"
      [] word = "loading." -> "loading"
      [] word = "loading?" -> "loading"
      [] word = "organization-wide" -> "organizationwide"
      [] word = "pipeline?" -> "pipeline"
      [] word = "pipelines." -> "pipelines"
      [] word = "real-time" -> "realtime"
      [] word = "roadmap?" -> "roadmap"
      [] word = "scale." -> "scale"
      [] word = "scale?" -> "scale"
      [] word = "slow-running" -> "slowrunning"
      [] word = "stability?" -> "stability"
      [] word = "success?" -> "success"
      [] word = "system?" -> "system"
      [] word = "systems." -> "systems"
      [] word = "technologies?" -> "technologies"
      [] word = "technology?" -> "technology"
      [] word = "terms?" -> "terms"
      [] word = "testing." -> "testing"
      [] word = "that?" -> "that"
      [] word = "tracking?" -> "tracking"
      [] word = "why?" -> "why"
      [] word = "workloads?" -> "workloads"
      [] word = "{\"question\":" -> "question"
      [] OTHER -> word

ShortWords ==
    {"a", "at", "by", "do", "if", "in", "is", "it", "ma", "of", "on", "to", "vs"}

STOP_WORDS ==
    {"the", "a", "an", "is", "are", "was", "were", "be", "been", "being", "have", "has", "had", "do", "does", "did", "will", "would", "could", "should", "may", "might", "can", "you", "your", "me", "my", "how", "what", "when", "where", "why", "which", "this", "that", "these", "those", "tell", "explain", "describe", "about", "give", "example", "walk", "through"}

\* str.strip().startswith("{") or str.strip().startswith("[")
LooksLikeJson(text) ==
    /\ Words(text) # <<>>
    /\ Words(text)[1] \in {"{\"question\":", "[probe]"}

\* seq[:n]
Take(seq, n) == SubSeq(seq, 1, IF Len(seq) < n THEN Len(seq) ELSE n)

\* the number of significant words a normalized question keeps
NormalizedWordLimit == 15

\* InterviewSession._normalize_question: the kept words, in order; the
\* joined string is determined by this sequence
_normalize_question(text) ==
    LET canon == [i \in 1..Len(Words(text)) |-> Canon(Words(text)[i])]
        Keep(w) == /\ w # ""
                   /\ w \notin STOP_WORDS
                   /\ w \notin ShortWords
    IN  Take(SelectSeq(canon, Keep), NormalizedWordLimit)

----------------------------------------------------------------------------
(* Session model (models/interview.py) *)

\* QuestionResponse as created when a question is delivered.  asked_at,
\* expected_points and the audio chunks are not carried.
QuestionResponse(id, text, skill, followup, parent) ==
    [question_id         |-> id,
     question_text       |-> text,
     question_audio_url  |-> None,
     skill_id            |-> skill,
     response_transcript |-> None,
     evaluation          |-> NoRec,
     is_followup         |-> followup,
     parent_question_id  |-> parent]

\* InterviewSession(setup=setup): the field defaults; session_id is the
\* uuid the default factory draws.  started_at and completed_at record
\* whether a time has been stored; every store of datetime.utcnow() is also
\* logged in the outcome of the call (stamped).
InterviewSession(session_id, setup) ==
    [session_id                 |-> session_id,
     setup                      |-> setup,
     state                      |-> "setup",
     started_at                 |-> FALSE,
     completed_at               |-> FALSE,
     questions                  |-> <<>>,
     current_question_index     |-> 0,
     total_core_questions_asked |-> 0,
     total_followups_asked      |-> 0,
     current_question_followups |-> 0,
     asked_question_hashes      |-> {},
     asked_skills               |-> {},
     current_question_context   |-> <<>>,
     current_difficulty         |-> 5,
     difficulty_history         |-> <<>>,
     running_score              |-> [sum |-> 0, count |-> 1],
     skill_scores               |-> <<>>,
     error_message              |-> None]

\* get_current_question giving the first question of the session
get_current_question_first(s) ==
    IF s.questions # <<>> THEN s.questions[1] ELSE NoRec

\* get_current_question: the entry at current_question_index (0-based), or
\* no record
get_current_question(s) ==
    IF s.questions # <<>> /\ s.current_question_index < Len(s.questions)
    THEN s.questions[s.current_question_index + 1]
    ELSE NoRec

is_question_asked(s, text) ==
    _normalize_question(text) \in s.asked_question_hashes

is_skill_asked(s, skill) == skill \in s.asked_skills

Turn(role, content) == [role |-> role, content |-> content]

\* add_question counting every question as a core question
add_question_all_core(s, q) ==
    LET qs == Append(s.questions, q)
    IN  [s EXCEPT
            !.questions = qs,
            !.current_question_index = Len(qs) - 1,
            !.asked_question_hashes =
                @ \cup {_normalize_question(q.question_text)},
            !.asked_skills =
                IF q.skill_id # None /\ q.skill_id # ""
                THEN @ \cup {q.skill_id} ELSE @,
            !.total_core_questions_asked = @ + 1,
            !.current_question_followups = 0,
            !.current_question_context =
                <<Turn("interviewer", q.question_text)>>]

\* add_question keeping only the hash of the question it adds
add_question_last_hash_only(s, q) ==
    LET qs == Append(s.questions, q)
        base == [s EXCEPT
                    !.questions = qs,
                    !.current_question_index = Len(qs) - 1,
                    !.asked_question_hashes =
                        {_normalize_question(q.question_text)},
                    !.asked_skills =
                        IF q.skill_id # None /\ q.skill_id # ""
                        THEN @ \cup {q.skill_id} ELSE @]
    IN  IF ~q.is_followup
        THEN [base EXCEPT
                !.total_core_questions_asked = @ + 1,
                !.current_question_followups = 0,
                !.current_question_context =
                    <<Turn("interviewer", q.question_text)>>]
        ELSE [base EXCEPT
                !.total_followups_asked = @ + 1,
                !.current_question_followups = @ + 1,
                !.current_question_context =
                    Append(@, Turn("interviewer", q.question_text))]

\* add_question going on with the buffer and the counter of the question
\* before, whatever the kind of the new question
add_question_buffer_kept(s, q) ==
    LET qs == Append(s.questions, q)
        base == [s EXCEPT
                    !.questions = qs,
                    !.current_question_index = Len(qs) - 1,
                    !.asked_question_hashes =
                        @ \cup {_normalize_question(q.question_text)},
                    !.asked_skills =
                        IF q.skill_id # None /\ q.skill_id # ""
                        THEN @ \cup {q.skill_id} ELSE @,
                    !.current_question_context =
                        Append(@, Turn("interviewer", q.question_text))]
    IN  IF ~q.is_followup
        THEN [base EXCEPT !.total_core_questions_asked = @ + 1]
        ELSE [base EXCEPT
                !.total_followups_asked = @ + 1,
                !.current_question_followups = @ + 1]

\* add_question leaving current_question_index where it was
add_question_index_kept(s, q) ==
    LET base == [s EXCEPT
                    !.questions = Append(@, q),
                    !.asked_question_hashes =
                        @ \cup {_normalize_question(q.question_text)},
                    !.asked_skills =
                        IF q.skill_id # None /\ q.skill_id # ""
                        THEN @ \cup {q.skill_id} ELSE @]
    IN  IF ~q.is_followup
        THEN [base EXCEPT
                !.total_core_questions_asked = @ + 1,
                !.current_question_followups = 0,
                !.current_question_context =
                    <<Turn("interviewer", q.question_text)>>]
        ELSE [base EXCEPT
                !.total_followups_asked = @ + 1,
                !.current_question_followups = @ + 1,
                !.current_question_context =
                    Append(@, Turn("interviewer", q.question_text))]

add_question(s, q) ==
    LET qs == Append(s.questions, q)
        base == [s EXCEPT
                    !.questions = qs,
                    !.current_question_index = Len(qs) - 1,
                    !.asked_question_hashes =
                        @ \cup {_normalize_question(q.question_text)},
                    !.asked_skills =
                        IF q.skill_id # None /\ q.skill_id # ""
                        THEN @ \cup {q.skill_id} ELSE @]
    IN  IF ~q.is_followup
        THEN [base EXCEPT
                !.total_core_questions_asked = @ + 1,
                !.current_question_followups = 0,
                !.current_question_context =
                    <<Turn("interviewer", q.question_text)>>]
        ELSE [base EXCEPT
                !.total_followups_asked = @ + 1,
                !.current_question_followups = @ + 1,
                !.current_question_context =
                    Append(@, Turn("interviewer", q.question_text))]

add_response_to_context(s, response) ==
    [s EXCEPT !.current_question_context =
                    Append(@, Turn("candidate", response))]

\* should_end_interview with the budget of the follow-ups, twice
\* max_questions, as the budget of the core questions
should_end_interview_double_budget(s) ==
    \/ s.total_core_questions_asked >= s.setup.max_questions * 2
    \/ s.state \in {"complete", "cancelled", "error"}

\* should_end_interview comparing with > in place of >=
should_end_interview_late(s) ==
    \/ s.total_core_questions_asked > s.setup.max_questions
    \/ s.state \in {"complete", "cancelled", "error"}

\* should_end_interview looking at the state only, not at the budget
should_end_interview_state_only(s) ==
    s.state \in {"complete", "cancelled", "error"}

\* should_end_interview taking every state without a way out as an end
should_end_interview_any_final(s) ==
    \/ s.total_core_questions_asked >= s.setup.max_questions
    \/ s.state \in {"complete", "cancelled", "error", "finished"}

should_end_interview(s) ==
    \/ s.total_core_questions_asked >= s.setup.max_questions
    \/ s.state \in {"complete", "cancelled", "error"}

----------------------------------------------------------------------------
(* A call in progress.  c.s is the session object the call works on, c.exc *)
(* the exception that is propagating ("none" while the call is running     *)
(* normally), env the answers of the outside world during the call.  The   *)
(* remaining fields log what the call did.                                 *)

Call(s, env) ==
    [s         |-> s,
     env       |-> env,
     target    |-> None,    \* new_state of a transition_state call
     exc       |-> "none",
     awaiting  |-> None,    \* the collaborator call the call is waiting at
     evaluation |-> NoRec,  \* the evaluation a pending decision works on
     resumed   |-> FALSE,   \* the call was suspended and went on later
     path      |-> <<>>,    \* state changes made, in order
     notified  |-> <<>>,    \* state-change callbacks awaited, in order
     stamped   |-> {},      \* timestamp fields written with utcnow()
     traces    |-> <<>>,    \* trace events accepted by the tracing sink
     trace_error |-> FALSE, \* the tracing sink failed on an event
     llm_error |-> FALSE,   \* an LLM request of the AI layer raised
     fallback  |-> FALSE,   \* the AI layer answered with its fallback
     tts_error |-> FALSE,   \* speech synthesis failed inside the processor
     stt       |-> "unused",\* transcription: "unused", "absent", "ok", "error"
     added     |-> 0,       \* questions appended by the call
     audio     |-> None,    \* audio_data of the returned action
     questions_completed |-> None,  \* of the dict end_interview returns
     followup_question |-> None,    \* the text the follow-up decider gave
     followup  |-> NoRec,   \* the decision the follow-up decider returned
     result    |-> None,    \* what a query returned
     action    |-> None]    \* "action" of the returned dict

Raised(c) == c.exc # "none"

\* the call has reached an await of the AI layer and not yet gone on
Awaiting(c) == ~Raised(c) /\ c.awaiting # None

\* return {...}: the call ends normally with this action
Return(c, action) == IF Raised(c) THEN c ELSE [c EXCEPT !.action = action]

----------------------------------------------------------------------------
(* Tracing sink: AIReasoningLayer.start_interview_trace and                *)
(* end_interview_trace.  The sink is fire-and-forget: when it fails the    *)
(* event is lost and nothing is raised.                                    *)

\* the sink letting its failure out to the caller
end_interview_trace_raises(c, final_state) ==
    IF c.env.trace_ok THEN [c EXCEPT !.traces = Append(@, final_state)]
    ELSE [c EXCEPT !.trace_error = TRUE, !.exc = "TraceError"]

start_interview_trace(c) ==
    IF c.env.trace_ok THEN [c EXCEPT !.traces = Append(@, "start")]
    ELSE [c EXCEPT !.trace_error = TRUE]

end_interview_trace(c, final_state) ==
    IF c.env.trace_ok THEN [c EXCEPT !.traces = Append(@, final_state)]
    ELSE [c EXCEPT !.trace_error = TRUE]

----------------------------------------------------------------------------
(* State machine: transition_state *)

\* for callback in self._state_change_callbacks: await callback(...), each
\* inside try/except
\* the notification loop ending at the first callback that raises
NotifyStateChangeUntilRaise(session_id, old_state, new_state) ==
    LET Upto(n) == \A k \in 1..(n - 1) : callbacks[k] # "raises"
        reached == {n \in 1..Len(callbacks) : Upto(n)}
    IN  [i \in 1..Cardinality(reached) |->
            [observer |-> i, session_id |-> session_id,
             old_state |-> old_state, new_state |-> new_state,
             raised |-> callbacks[i] = "raises"]]

NotifyStateChange(session_id, old_state, new_state) ==
    [i \in 1..Len(callbacks) |->
        [observer |-> i, session_id |-> session_id, old_state |-> old_state,
         new_state |-> new_state, raised |-> callbacks[i] = "raises"]]

\* transition_state assigning the state before it validates the transition
transition_state_assign_first(c, new_state, error_message) ==
    IF Raised(c) THEN c
    ELSE
      LET old_state == c.s.state
          c1 == [c EXCEPT
                    !.s.state = new_state,
                    !.path = Append(@, [old_state |-> old_state,
                                        new_state |-> new_state])]
      IN  IF new_state \notin VALID_TRANSITIONS[old_state]
          THEN [c1 EXCEPT !.exc = "StateTransitionError"]
          ELSE [c1 EXCEPT
                    !.s.started_at = IF new_state = "ready" THEN TRUE ELSE @,
                    !.s.completed_at = IF new_state = "complete" THEN TRUE ELSE @,
                    !.s.error_message =
                        IF new_state = "error" THEN error_message ELSE @,
                    !.notified = @ \o NotifyStateChange(c.s.session_id, old_state,
                                                       new_state)]

transition_state(c, new_state, error_message) ==
    IF Raised(c) THEN c
    ELSE IF new_state \notin VALID_TRANSITIONS[c.s.state]
    THEN [c EXCEPT !.exc = "StateTransitionError"]
    ELSE
      LET old_state == c.s.state
          s1 == [c.s EXCEPT
                    !.state = new_state,
                    !.started_at = IF new_state = "ready" THEN TRUE ELSE @,
                    !.completed_at = IF new_state = "complete" THEN TRUE ELSE @,
                    !.error_message =
                        IF new_state = "error" THEN error_message ELSE @]
          c1 == [c EXCEPT
                    !.s = s1,
                    !.path = Append(@, [old_state |-> old_state,
                                        new_state |-> new_state]),
                    !.stamped = @ \cup
                        (CASE new_state = "ready"    -> {"started_at"}
                           [] new_state = "complete" -> {"completed_at"}
                           [] OTHER                  -> {})]
          c2 == IF cfg.ai_reasoning /\ new_state = "complete"
                THEN end_interview_trace(c1, "complete")
                ELSE IF cfg.ai_reasoning /\ new_state = "error"
                THEN end_interview_trace(c1, "error")
                ELSE c1
      IN  [c2 EXCEPT !.notified = @ \o NotifyStateChange(c.s.session_id, old_state,
                                                       new_state)]

----------------------------------------------------------------------------
(* _build_context: the parts of InterviewContext the collaborators read *)

SkillKeys(s) ==
    LET IsKey(k) == k \in DOMAIN s.skill_scores
    IN  SelectSeq(CatalogOrder, IsKey)

skills_covered(s) ==
    s.asked_skills \cup {k \in DOMAIN s.skill_scores : s.skill_scores[k] # <<>>}

skills_remaining(s) ==
    LET NotCovered(k) == k \notin skills_covered(s)
    IN  SelectSeq(SkillKeys(s), NotCovered)

----------------------------------------------------------------------------
(* Question generation *)

QuestionOf(text, skill) == [text |-> text, skill_id |-> skill]

\* question_pool of _generate_mock_question (the entries the model carries)
question_pool ==
    <<QuestionOf("How do you handle NULL values in SQL aggregations?", "sql_aggregations"),
      QuestionOf("How would you implement idempotent data loading?", "incremental_loads"),
      QuestionOf("How would you optimize a slow-running Spark job?", "spark_tuning"),
      QuestionOf("Explain the CAP theorem and how it applies to data systems.", "cap_theorem"),
      QuestionOf("How would you implement data lineage tracking?", "lineage_tracking"),
      QuestionOf("How do you design reliable DAGs in Airflow?", "dag_design")>>

\* fallback_questions of _get_fallback_question (the entries the model carries)
fallback_questions(role) ==
    CASE role = "junior_data_engineer" ->
          <<QuestionOf("What is ETL and why is it important in data engineering?", "etl_concepts"),
            QuestionOf("How would you handle duplicate records in a dataset?", "data_quality_concepts"),
            QuestionOf("What is database normalization and why is it important?", "database_normalization"),
            QuestionOf("What's the difference between DELETE and TRUNCATE in SQL?", "sql_basics"),
            QuestionOf("How do you use GROUP BY and HAVING clauses in SQL?", "sql_aggregations"),
            QuestionOf("What is a primary key vs a foreign key?", "relational_db_concepts")>>
      [] role = "mid_data_engineer" ->
          <<QuestionOf("What strategies would you use to optimize a slow Spark job?", "spark_tuning"),
            QuestionOf("Describe how you would implement incremental data loading.", "incremental_loads"),
            QuestionOf("What is Apache Airflow and how do you design DAGs?", "airflow_basics"),
            QuestionOf("How do you handle schema evolution in a data pipeline?", "schema_evolution"),
            QuestionOf("Describe your approach to data quality testing.", "data_testing"),
            QuestionOf("How would you partition data in a data lake?", "data_lakes_basics")>>
      [] role = "senior_data_engineer" ->
          <<QuestionOf("How would you design a real-time analytics system?", "stream_processing"),
            QuestionOf("Explain the CAP theorem and its implications for data systems.", "cap_theorem"),
            QuestionOf("How would you implement data observability at scale?", "data_observability"),
            QuestionOf("Describe your approach to managing technical debt in pipelines.", "data_platform_design"),
            QuestionOf("How do you design for both OLTP and OLAP workloads?", "data_platform_design"),
            QuestionOf("Explain different caching strategies for data applications.", "caching_strategies")>>
      [] role = "staff_data_engineer" ->
          <<QuestionOf("Describe your approach to implementing data governance at scale.", "data_governance"),
            QuestionOf("How do you balance technical debt with feature delivery?", "platform_strategy"),
            QuestionOf("What's your process for evaluating new data technologies?", "technology_evaluation"),
            QuestionOf("Describe your approach to data mesh implementation.", "data_mesh_concepts"),
            QuestionOf("What metrics do you use to measure platform success?", "platform_strategy"),
            QuestionOf("How do you create a 3-year technical roadmap?", "technical_roadmapping")>>
      [] role = "principal_data_engineer" ->
          <<QuestionOf("How would you evaluate and recommend a new data technology?", "technology_evaluation"),
            QuestionOf("What's your vision for the future of data engineering?", "platform_strategy"),
            QuestionOf("How do you balance innovation with operational stability?", "platform_strategy"),
            QuestionOf("Describe your experience with M&A data integration.", "enterprise_data_architecture"),
            QuestionOf("How do you handle organization-wide data security concerns?", "data_security"),
            QuestionOf("What's your approach to building a center of excellence?", "team_technical_leadership")>>

\* random.choice(seq) with the random index drawn by the environment
random_choice(seq, pick) == seq[(pick % Len(seq)) + 1]

\* the whole pool, asked or not
AvailableQuestionsUnfiltered(s, pool) == pool

\* the pool entries not yet asked, or the whole pool when none is left
AvailableQuestions(s, pool) ==
    LET NotAsked(q) == ~is_question_asked(s, q.text)
        available == SelectSeq(pool, NotAsked)
    IN  IF available = <<>> THEN pool ELSE available

_generate_mock_question(s, pick) ==
    random_choice(AvailableQuestions(s, question_pool), pick)

\* AIReasoningLayer._get_fallback_question(context, question_text)
_get_fallback_question(s, question_text, pick) ==
    IF question_text # None /\ question_text # ""
       /\ ~is_question_asked(s, question_text)
    THEN QuestionOf(question_text,
                    IF skills_remaining(s) # <<>>
                    THEN skills_remaining(s)[1] ELSE "data_platform_design")
    ELSE random_choice(
            AvailableQuestions(s, fallback_questions(s.setup.target_role)),
            pick)

\* AIReasoningLayer._parse_question_response: a response that holds a JSON
\* object gives the question it describes, any other text is taken as the
\* question text itself
_parse_question_response(s, response, pick) ==
    IF response.kind = "json"
    THEN QuestionOf(response.text, response.skill_id)
    ELSE _get_fallback_question(s, response.text, pick)

max_attempts == 3

\* AIReasoningLayer.generate_question: the attempt loop.  llm[i] is what
\* the i-th request to the model gives: kind "error" when the request
\* raises.  The result tells the question, whether a request raised and
\* whether the fallback after the loop gave the question.
RECURSIVE GenerateAttempts(_, _, _, _, _)
GenerateAttempts(s, llm, pick, attempt, raised) ==
    IF attempt > max_attempts
    THEN [question |-> _get_fallback_question(s, None, pick),
          raised |-> raised, fallback |-> TRUE]
    ELSE IF llm[attempt].kind = "error"
    THEN GenerateAttempts(s, llm, pick, attempt + 1, TRUE)
    ELSE LET question == _parse_question_response(s, llm[attempt], pick)
         IN  IF is_question_asked(s, question.text)
             THEN GenerateAttempts(s, llm, pick, attempt + 1, raised)
             ELSE [question |-> question, raised |-> raised,
                   fallback |-> FALSE]

generate_question(s, llm, pick) == GenerateAttempts(s, llm, pick, 1, FALSE)

\* except Exception as e: logger.error(...) in generate_question and
\* generate_followup: the failed request is logged, the call goes on
\* the except clause raising the failure again
RequestFailedReraised(c) == [c EXCEPT !.llm_error = TRUE, !.exc = "LLMError"]

RequestFailed(c) == [c EXCEPT !.llm_error = TRUE]

----------------------------------------------------------------------------
(* Audio processor *)

\* AudioProcessor.text_to_speech: every engine ends in _tts_edge, which
\* returns a result without audio when synthesis fails; "url" is None in
\* every result
\* text_to_speech letting a synthesis failure out
text_to_speech_raises(c) ==
    IF c.env.tts_ok
    THEN [c EXCEPT !.audio = "base64-audio"]
    ELSE [c EXCEPT !.tts_error = TRUE, !.exc = "SynthesisError"]

text_to_speech(c) ==
    IF c.env.tts_ok
    THEN [c EXCEPT !.audio = "base64-audio"]
    ELSE [c EXCEPT !.audio = "", !.tts_error = TRUE]

\* AudioProcessor.speech_to_text: _transcribe_local and _transcribe_api log
\* a failure and raise it again; stt is the recognised text, or "error"
speech_to_text(c, stt) ==
    IF stt = "error"
    THEN [c EXCEPT !.exc = "TranscriptionError", !.stt = "error"]
    ELSE [c EXCEPT !.stt = "ok"]

----------------------------------------------------------------------------
(* Response evaluation.  Scores are kept in units of 1/Scale of a point.   *)

Scale == 10000

Min(a, b) == IF a < b THEN a ELSE b
Max(a, b) == IF a > b THEN a ELSE b

\* The answers a candidate gives, each with the counts _analyze_response
\* takes from its text and len() of the text.
BriefAnswer == "a brief answer: 40 words in three sentences"
SolidAnswer == "a solid answer: 100 words, two technical terms"
StrongAnswer == "a strong answer: 100 words, structured, four technical terms"
TranscriptionUnavailable == "[Transcription unavailable]"

Counts(wc, tech, exp, struct, sentences, hedges, chars) ==
    [word_count |-> wc, technical_keywords |-> tech,
     experience_keywords |-> exp, structure_keywords |-> struct,
     sentence_count |-> sentences, hedge_count |-> hedges, chars |-> chars]

TextCounts(transcript) ==
    CASE transcript = ""                       -> Counts(0, 0, 0, 0, 0, 0, 0)
      [] transcript = TranscriptionUnavailable -> Counts(2, 0, 0, 0, 0, 0, 27)
      [] transcript = BriefAnswer              -> Counts(40, 0, 1, 0, 3, 0, 240)
      [] transcript = SolidAnswer              -> Counts(100, 2, 1, 0, 3, 0, 620)
      [] transcript = StrongAnswer             -> Counts(100, 4, 2, 2, 6, 0, 720)

\* EvaluationEngine._analyze_response: the five sub-scores
_analyze_response(transcript) ==
    LET n == TextCounts(transcript)
        word_count == n.word_count
        length_score ==
            IF word_count < 30 THEN 30000
            ELSE IF word_count < 50 THEN 40000
            ELSE IF word_count < 100 THEN 50000
            ELSE IF word_count < 200 THEN 65000
            ELSE IF word_count < 300 THEN 70000
            ELSE IF word_count < 500 THEN 65000
            ELSE 55000
        tech_ratio == (n.technical_keywords * 100 * Scale) \div Max(word_count, 1)
        tech_score ==
            IF tech_ratio > 5 * Scale
            THEN Min(9 * Scale, 6 * Scale + tech_ratio \div 2)
            ELSE Max(3 * Scale, 5 * Scale + tech_ratio)
        practical_score == Min(8 * Scale, 4 * Scale + n.experience_keywords * 8000)
        clarity_score ==
            Min(8 * Scale,
                5 * Scale + n.structure_keywords * 5000
                  + Min((n.sentence_count * Scale) \div 3, 2 * Scale))
        confidence_score == Max(4 * Scale, 7 * Scale - n.hedge_count * 5000)
        depth_score == (tech_score + length_score) \div 2
    IN  [technical_correctness  |-> Min(10 * Scale, tech_score),
         depth_of_understanding |-> Min(10 * Scale, depth_score),
         practical_experience   |-> Min(10 * Scale, practical_score),
         communication_clarity  |-> Min(10 * Scale, clarity_score),
         confidence             |-> Min(10 * Scale, confidence_score)]

\* ScoreBreakdown.overall_score
overall_score(scores) ==
    (30 * scores.technical_correctness + 25 * scores.depth_of_understanding
     + 20 * scores.practical_experience + 15 * scores.communication_clarity
     + 10 * scores.confidence) \div 100

_calculate_difficulty_delta(overall) ==
    IF overall >= 85000 THEN 2
    ELSE IF overall >= 7 * Scale THEN 1
    ELSE IF overall >= 5 * Scale THEN 0
    ELSE IF overall >= 3 * Scale THEN -1
    ELSE -2

ResponseEvaluation(question_id, skill, overall, followup, delta) ==
    [question_id      |-> question_id,
     skill_id         |-> skill,
     overall_score    |-> overall,
     needs_followup   |-> followup,
     difficulty_delta |-> delta]

\* EvaluationEngine.evaluate_response as the orchestrator calls it: no
\* question object is passed, so the heuristic evaluation is used
_heuristic_evaluation(s, question_id, transcript) ==
    LET overall == overall_score(_analyze_response(transcript))
    IN  ResponseEvaluation(
            question_id,
            IF skills_remaining(s) # <<>> THEN skills_remaining(s)[1] ELSE "general",
            overall,
            overall < 6 * Scale,
            _calculate_difficulty_delta(overall))

\* InterviewOrchestrator._generate_mock_evaluation (no evaluation engine)
_generate_mock_evaluation(question_id, transcript) ==
    LET length == TextCounts(transcript).chars
        base_score == Min(8 * Scale, Max(3 * Scale, (length * Scale) \div 100))
        scores == [technical_correctness  |-> base_score,
                   depth_of_understanding |-> base_score - 5000,
                   practical_experience   |-> base_score - Scale,
                   communication_clarity  |-> base_score + 5000,
                   confidence             |-> base_score]
    IN  ResponseEvaluation(
            question_id,
            "data_platform_design",
            overall_score(scores),
            base_score < 6 * Scale,
            IF base_score > 7 * Scale THEN 1
            ELSE IF base_score < 4 * Scale THEN -1 ELSE 0)

RECURSIVE SumSeq(_)
SumSeq(seq) == IF seq = <<>> THEN 0 ELSE seq[1] + SumSeq(Tail(seq))

\* every recorded score, over all skills
RECURSIVE AllScores(_, _)
AllScores(skill_scores, keys) ==
    IF keys = <<>> THEN <<>>
    ELSE skill_scores[keys[1]] \o AllScores(skill_scores, Tail(keys))

\* _update_running_scores taking the latest score as the running score
_update_running_scores_latest(s, evaluation) ==
    LET s1 == IF evaluation.skill_id \in DOMAIN s.skill_scores
              THEN [s EXCEPT !.skill_scores[evaluation.skill_id] =
                                    Append(@, evaluation.overall_score)]
              ELSE s
    IN  [s1 EXCEPT !.running_score =
                    [sum |-> evaluation.overall_score, count |-> 1]]

\* _update_running_scores opening a list for a skill it has no key for
_update_running_scores_any_skill(s, evaluation) ==
    LET s1 == IF evaluation.skill_id \in DOMAIN s.skill_scores
              THEN [s EXCEPT !.skill_scores[evaluation.skill_id] =
                                    Append(@, evaluation.overall_score)]
              ELSE [s EXCEPT !.skill_scores =
                        @ @@ (evaluation.skill_id :>
                                    <<evaluation.overall_score>>)]
        all_scores == AllScores(s1.skill_scores, SkillKeys(s1))
    IN  IF all_scores # <<>>
        THEN [s1 EXCEPT !.running_score =
                    [sum |-> SumSeq(all_scores), count |-> Len(all_scores)]]
        ELSE s1

_update_running_scores(s, evaluation) ==
    LET s1 == IF evaluation.skill_id \in DOMAIN s.skill_scores
              THEN [s EXCEPT !.skill_scores[evaluation.skill_id] =
                                    Append(@, evaluation.overall_score)]
              ELSE s
        all_scores == AllScores(s1.skill_scores, SkillKeys(s1))
    IN  IF all_scores # <<>>
        THEN [s1 EXCEPT !.running_score =
                    [sum |-> SumSeq(all_scores), count |-> Len(all_scores)]]
        ELSE s1

----------------------------------------------------------------------------
(* Follow-up decision *)

FollowUpDecision(should_followup, followup_question) ==
    [should_followup   |-> should_followup,
     followup_question |-> followup_question]

\* AIReasoningLayer._get_fallback_followup(evaluation, followup_text)
_get_fallback_followup(evaluation, followup_text) ==
    LET score == evaluation.overall_score
        given == followup_text # None /\ followup_text # ""
    IN  IF score < 4 * Scale
        THEN FollowUpDecision(TRUE,
                IF given THEN followup_text
                ELSE "Could you explain that concept in simpler terms?")
        ELSE IF score < 6 * Scale
        THEN FollowUpDecision(TRUE,
                IF given THEN followup_text
                ELSE "Can you provide a specific example from your experience?")
        ELSE IF score < 8 * Scale
        THEN FollowUpDecision(TRUE,
                IF given THEN followup_text
                ELSE "What would you do differently if the scale was 10x larger?")
        ELSE FollowUpDecision(FALSE, None)

\* AIReasoningLayer._parse_followup_response: response.kind "json" is a
\* response holding a JSON object (should_followup and question read from
\* it), "raw" any other text
_parse_followup_response(response, evaluation) ==
    IF response.kind = "json"
    THEN FollowUpDecision(response.should_followup, response.text)
    ELSE IF LooksLikeJson(response.text)
    THEN _get_fallback_followup(evaluation, None)
    ELSE _get_fallback_followup(evaluation, response.text)

\* AIReasoningLayer.generate_followup: a request that raises is answered
\* by the fallback decision
generate_followup(response, evaluation) ==
    IF response.kind = "error"
    THEN _get_fallback_followup(evaluation, None)
    ELSE _parse_followup_response(response, evaluation)

\* InterviewOrchestrator._generate_mock_followup
_generate_mock_followup(evaluation) ==
    FollowUpDecision(TRUE, "Can you provide a specific example from your experience?")

----------------------------------------------------------------------------
(* Interview flow (InterviewOrchestrator) *)

\* question.id of a generated question: a fresh identifier
QuestionId(s) == <<"q", Len(s.questions) + 1>>

\* f"{current_question.question_id}_followup_{total_followups_asked + 1}"
FollowupId(s, parent_id) ==
    parent_id \o <<"followup", s.total_followups_asked + 1>>

\* the delivery common to ask_next_question and _ask_followup: synthesize
\* the audio when there is a processor, then session.add_question
Deliver(c, qr) ==
    LET c1 == IF Raised(c) \/ ~cfg.audio_processor THEN c
              ELSE text_to_speech(c)
    IN  IF Raised(c1) THEN c1
        ELSE [c1 EXCEPT !.s = add_question(@, qr), !.added = @ + 1]

\* ask_next_question up to the question generator: the end-of-interview
\* check and the transition to asking
AskBegin(c) ==
    IF Raised(c) THEN c
    ELSE IF should_end_interview(c.s)
    THEN Return(transition_state(c, "complete", None), "complete")
    ELSE
      LET c1 == transition_state(c, "asking", None)
      IN  IF Raised(c1) THEN c1
          ELSE [c1 EXCEPT !.awaiting = "generate_question"]

\* ask_next_question from the question generator on: the question is
\* generated, delivered and listened for
AskResume(c) ==
    LET c1 == [c EXCEPT !.awaiting = None]
        generated ==
            generate_question(c1.s, c1.env.llm, c1.env.pick)
        question ==
            IF cfg.ai_reasoning THEN generated.question
            ELSE _generate_mock_question(c1.s, c1.env.pick)
        c2 == IF cfg.ai_reasoning
              THEN [(IF generated.raised THEN RequestFailed(c1) ELSE c1)
                        EXCEPT !.fallback = generated.fallback]
              ELSE c1
        qr == QuestionResponse(QuestionId(c1.s), question.text,
                               question.skill_id, FALSE, NoRec)
        c3 == Deliver(c2, qr)
    IN  Return(transition_state(c3, "listening", None), "question")

ask_next_question(c) ==
    LET c1 == AskBegin(c)
    IN  IF Awaiting(c1) THEN AskResume(c1) ELSE c1

\* start_interview up to the question generator
StartBegin(c) ==
    LET c1 == IF cfg.ai_reasoning THEN start_interview_trace(c) ELSE c
    IN  AskBegin(transition_state(c1, "ready", None))

start_interview(c) ==
    LET c1 == StartBegin(c)
    IN  IF Awaiting(c1) THEN AskResume(c1) ELSE c1

\* the follow-up text delivered whatever the decider returned
FollowupTextUnguarded(followup_question) ==
    IF followup_question # None /\ followup_question # ""
    THEN followup_question
    ELSE "Can you elaborate on that?"

\* followup.followup_question or "Can you elaborate on that?", replaced by
\* the generic probe when it looks like JSON
FollowupText(followup_question) ==
    LET text == IF followup_question # None /\ followup_question # ""
                THEN followup_question
                ELSE "Can you elaborate on that?"
    IN  IF LooksLikeJson(text)
        THEN "Can you provide a specific example from your experience?"
        ELSE text

_ask_followup(call, evaluation) ==
    LET c == [call EXCEPT !.awaiting = None]
        followup == IF cfg.ai_reasoning
                    THEN generate_followup(c.env.followup, evaluation)
                    ELSE _generate_mock_followup(evaluation)
        current_question == get_current_question(c.s)
        followup_text == FollowupText(followup.followup_question)
        qr == QuestionResponse(
                FollowupId(c.s, current_question.question_id), followup_text,
                current_question.skill_id, TRUE, current_question.question_id)
        c0 == [(IF cfg.ai_reasoning /\ c.env.followup.kind = "error"
                THEN [RequestFailed(c) EXCEPT !.fallback = TRUE]
                ELSE c)
                    EXCEPT !.followup_question = followup.followup_question,
                           !.followup = followup]
        c1 == Deliver(c0, qr)
        c2 == transition_state(c1, "asking", None)
        c3 == transition_state(c2, "listening", None)
    IN  Return(c3, "followup")

\* the follow-up condition with <= in place of <
FollowupDueInclusive(s, evaluation) ==
    /\ evaluation.needs_followup
    /\ s.setup.mode = "structured_followup"
    /\ s.total_followups_asked <= s.setup.max_questions * 2

\* the follow-up condition without the evaluation's needs_followup
FollowupDueWhateverTheAnswer(s, evaluation) ==
    /\ s.setup.mode = "structured_followup"
    /\ s.total_followups_asked < s.setup.max_questions * 2

\* the follow-up condition without the mode
FollowupDueAnyMode(s, evaluation) ==
    /\ evaluation.needs_followup
    /\ s.total_followups_asked < s.setup.max_questions * 2

\* the condition of the follow-up branch of _decide_next_action
FollowupDue(s, evaluation) ==
    /\ evaluation.needs_followup
    /\ s.setup.mode = "structured_followup"
    /\ s.total_followups_asked < s.setup.max_questions * 2

\* the adaptation with the upper limit only
AdaptDifficultyNoFloor(s, difficulty_delta) ==
    LET difficulty == Min(10, s.current_difficulty + difficulty_delta)
    IN  [s EXCEPT !.current_difficulty = difficulty,
                  !.difficulty_history = Append(@, difficulty)]

\* session.current_difficulty = max(1, min(10, current + delta)), appended
\* to the history
AdaptDifficulty(s, difficulty_delta) ==
    LET difficulty == Max(1, Min(10, s.current_difficulty + difficulty_delta))
    IN  [s EXCEPT !.current_difficulty = difficulty,
                  !.difficulty_history = Append(@, difficulty)]

\* _decide_next_action adapting the difficulty before it looks at the
\* follow-up
DecideBeginAdaptFirst(c, evaluation) ==
    IF Raised(c) THEN c
    ELSE
      LET c1 == [c EXCEPT !.s = AdaptDifficulty(@, evaluation.difficulty_delta)]
      IN  IF FollowupDue(c.s, evaluation)
          THEN [c1 EXCEPT !.awaiting = "generate_followup",
                          !.evaluation = evaluation]
          ELSE IF should_end_interview(c1.s)
          THEN Return(transition_state(c1, "complete", None), "complete")
          ELSE AskBegin(c1)

\* _decide_next_action up to the AI layer: the follow-up decider of
\* _ask_followup or the question generator of ask_next_question
DecideBegin(c, evaluation) ==
    IF Raised(c) THEN c
    ELSE IF FollowupDue(c.s, evaluation)
    THEN [c EXCEPT !.awaiting = "generate_followup",
                   !.evaluation = evaluation]
    ELSE
      LET c1 == [c EXCEPT !.s = AdaptDifficulty(@, evaluation.difficulty_delta)]
      IN  IF should_end_interview(c1.s)
          THEN Return(transition_state(c1, "complete", None), "complete")
          ELSE AskBegin(c1)

\* the call goes on from the await it reached
Continue(c) ==
    IF ~Awaiting(c) THEN c
    ELSE IF c.awaiting = "generate_followup"
    THEN _ask_followup(c, c.evaluation)
    ELSE AskResume(c)

_decide_next_action(c, evaluation) == Continue(DecideBegin(c, evaluation))

\* the current question's record, rewritten in place
SetCurrent(s, field, value) ==
    [s EXCEPT !.questions[s.current_question_index + 1][field] = value]

\* submit_response going on without looking for the current question
NoActiveQuestionUnchecked(s) == FALSE

\* if not current_question: raise ValueError("No active question")
NoActiveQuestion(s) == get_current_question(s) = NoRec

\* submit_response(session_id, audio_data, transcript): audio_data tells
\* whether audio bytes were passed, transcript is the text passed or None.
\* SubmitBegin is the call up to the AI layer.
SubmitBegin(c, audio_data, transcript) ==
    IF NoActiveQuestion(c.s)
    THEN [c EXCEPT !.exc = "NoActiveQuestion"]
    ELSE
      LET current_question == get_current_question(c.s)
          c1 == transition_state(c, "processing", None)
          transcribe == (transcript = None \/ transcript = "") /\ audio_data
          c2 == IF Raised(c1) \/ ~transcribe THEN c1
                ELSE IF cfg.audio_processor
                THEN speech_to_text(c1, c1.env.stt)
                ELSE [c1 EXCEPT !.stt = "absent"]
          text == IF transcribe
                  THEN IF cfg.audio_processor THEN c1.env.stt
                       ELSE TranscriptionUnavailable
                  ELSE transcript
          said == IF text = None THEN "" ELSE text
      IN  IF Raised(c2) THEN c2
          ELSE
            LET c3 == [c2 EXCEPT !.s = add_response_to_context(
                            SetCurrent(@, "response_transcript", text), said)]
                c4 == transition_state(c3, "evaluating", None)
            IN  IF Raised(c4) THEN c4
                ELSE
                  LET evaluation ==
                          IF cfg.evaluation_engine
                          THEN _heuristic_evaluation(c4.s,
                                    current_question.question_id, said)
                          ELSE _generate_mock_evaluation(
                                    current_question.question_id, said)
                      c5 == [c4 EXCEPT !.s = _update_running_scores(
                                    SetCurrent(@, "evaluation", evaluation),
                                    evaluation)]
                      c6 == transition_state(c5, "deciding", None)
                  IN  DecideBegin(c6, evaluation)

submit_response(c, audio_data, transcript) ==
    Continue(SubmitBegin(c, audio_data, transcript))

\* end_interview writing the state itself
end_interview_direct(c) ==
    Return([c EXCEPT !.s.completed_at = TRUE, !.s.state = "complete",
                     !.stamped = @ \cup {"completed_at"},
                     !.questions_completed = Len(c.s.questions)], "ended")

end_interview(c) ==
    LET c1 == [c EXCEPT !.s.completed_at = TRUE,
                        !.stamped = @ \cup {"completed_at"}]
        c2 == transition_state(c1, "complete", None)
    IN  IF Raised(c2) THEN c2
        ELSE [Return(c2, "ended") EXCEPT
                !.questions_completed = Len(c2.s.questions)]

generate_report(c) ==
    IF c.s.state \notin {"complete", "generating_report"}
    THEN [c EXCEPT !.exc = "InterviewNotComplete"]
    ELSE
      LET c1 == transition_state(c, "generating_report", None)
          c2 == transition_state(c1, "finished", None)
      IN  Return(c2, "report")

\* create_session leaving exclude_skills aside
create_session_exclude_ignored(session_id, setup) ==
    LET include(k) == setup.include_skills = {} \/ k \in setup.include_skills
        role_skills == get_skills_for_role(setup.target_role)
        skill_ids == SelectSeq(role_skills, include)
    IN  [InterviewSession(session_id, setup) EXCEPT
            !.skill_scores = [k \in Range(skill_ids) |-> <<>>],
            !.current_difficulty = difficulty_map[setup.target_role]]

\* create_session(setup): the session stored under its new id
create_session(session_id, setup) ==
    LET include(k) == setup.include_skills = {} \/ k \in setup.include_skills
        exclude(k) == k \notin setup.exclude_skills
        role_skills == get_skills_for_role(setup.target_role)
        skill_ids == SelectSeq(SelectSeq(role_skills, include), exclude)
    IN  [InterviewSession(session_id, setup) EXCEPT
            !.skill_scores = [k \in Range(skill_ids) |-> <<>>],
            !.current_difficulty = difficulty_map[setup.target_role]]

----------------------------------------------------------------------------
(* The orchestrator and its callers *)

\* InterviewOrchestrator(ai_reasoning, audio_processor, evaluation_engine):
\* which collaborators were passed to the constructor
Configs ==
    [ai_reasoning : BOOLEAN, audio_processor : BOOLEAN,
     evaluation_engine : BOOLEAN]

QuestionBudgets == {MinQuestions}

InterviewSetup(role, mode, max_questions) ==
    [target_role    |-> role,
     mode           |-> mode,
     max_questions  |-> max_questions,
     include_skills |-> {},
     exclude_skills |-> {}]

\* what a request to the language model gives
Failure == [kind |-> "error", text |-> None, skill_id |-> None,
            should_followup |-> TRUE]
Json(text, skill, should_followup) ==
    [kind |-> "json", text |-> text, skill_id |-> skill,
     should_followup |-> should_followup]
Raw(text) == [kind |-> "raw", text |-> text, skill_id |-> None,
              should_followup |-> TRUE]

\* the outcome of a call, as its caller and the observers see it
Outcome(op, sid, before, c) ==
    [op        |-> op,
     sid       |-> sid,
     before    |-> before,
     exc       |-> c.exc,
     resumed   |-> c.resumed,
     action    |-> c.action,
     path      |-> c.path,
     notified  |-> c.notified,
     stamped   |-> c.stamped,
     traces    |-> c.traces,
     trace_error |-> c.trace_error,
     target    |-> c.target,
     llm_error |-> c.llm_error,
     fallback  |-> c.fallback,
     tts_error |-> c.tts_error,
     stt       |-> c.stt,
     added     |-> c.added,
     audio     |-> c.audio,
     questions_completed |-> c.questions_completed,
     followup_question |-> c.followup_question,
     followup  |-> c.followup,
     result    |-> c.result]

NoEnv == [trace_ok |-> TRUE]

\* the call raised before it touched any session
Failed(exc) == [Call(NoRec, NoEnv) EXCEPT !.exc = exc]

Known(sid) == sid \in DOMAIN sessions

\* a call ending with its session object stored under every session id
FinishOnEverySession(op, sid, c) ==
    /\ sessions' = [other \in DOMAIN sessions |-> c.s]
    /\ last' = Outcome(op, sid, sessions[sid], c)
    /\ UNCHANGED <<cfg, callbacks, tasks>>

\* a call on session sid ends: the session object holds what the call
\* wrote to it, whether the call returned or raised
Finish(op, sid, c) ==
    /\ sessions' = [sessions EXCEPT ![sid] = c.s]
    /\ last' = Outcome(op, sid, sessions[sid], c)
    /\ UNCHANGED <<cfg, callbacks, tasks>>

\* if not session: raise ValueError(f"Session not found: {session_id}")
NotFound(op, sid) ==
    /\ ~Known(sid)
    /\ last' = Outcome(op, sid, NoRec, Failed("SessionNotFound"))
    /\ UNCHANGED <<cfg, sessions, callbacks, tasks>>

CreateSession(sid, setup) ==
    /\ ~Known(sid)
    /\ sessions' = sessions @@ (sid :> create_session(sid, setup))
    /\ last' = Outcome("create_session", sid, NoRec,
                       Call(create_session(sid, setup), NoEnv))
    /\ UNCHANGED <<cfg, callbacks, tasks>>

Transition(sid, new_state, error_message, env) ==
    \/ NotFound("transition_state", sid)
    \/ /\ Known(sid)
       /\ Finish("transition_state", sid,
                 transition_state(
                    [Call(sessions[sid], env) EXCEPT !.target = new_state],
                    new_state, error_message))

StartInterview(sid, env) ==
    \/ NotFound("start_interview", sid)
    \/ /\ Known(sid)
       /\ Finish("start_interview", sid,
                 start_interview(Call(sessions[sid], env)))

AskNextQuestion(sid, env) ==
    \/ NotFound("ask_next_question", sid)
    \/ /\ Known(sid)
       /\ Finish("ask_next_question", sid,
                 ask_next_question(Call(sessions[sid], env)))

SubmitResponse(sid, audio_data, transcript, env) ==
    \/ NotFound("submit_response", sid)
    \/ /\ Known(sid)
       /\ Finish("submit_response", sid,
                 submit_response(Call(sessions[sid], env), audio_data,
                                 transcript))

EndInterview(sid, env) ==
    \/ NotFound("end_interview", sid)
    \/ /\ Known(sid)
       /\ Finish("end_interview", sid, end_interview(Call(sessions[sid], env)))

GenerateReport(sid) ==
    \/ NotFound("generate_report", sid)
    \/ /\ Known(sid)
       /\ Finish("generate_report", sid,
                 generate_report(Call(sessions[sid], NoEnv)))

\* on_state_change(callback): kind tells whether the callback raises when
\* it is awaited
OnStateChange(kind) ==
    /\ Len(callbacks) < MaxObservers
    /\ callbacks' = Append(callbacks, kind)
    /\ last' = Outcome("on_state_change", NoSession, NoRec, Failed("none"))
    /\ UNCHANGED <<cfg, sessions, tasks>>

----------------------------------------------------------------------------
(* What the callers pass and what the outside world answers *)

SessionIds == {1}

Setups ==
    {InterviewSetup(role, mode, n) :
        role \in {"senior_data_engineer"},
        mode \in {"structured", "structured_followup"}, n \in QuestionBudgets}

\* the three requests of one generate_question call
AllFail == <<Failure, Failure, Failure>>
SparkThenNulls ==
    <<Json("How do you tune a slow Spark job?", "spark_tuning", TRUE),
      Json("HOW do you handle null values in SQL aggregations", "sql_aggregations", TRUE),
      Failure>>

Env(llm, pick, tts_ok, stt, followup, trace_ok) ==
    [llm |-> llm, pick |-> pick, tts_ok |-> tts_ok, stt |-> stt,
     followup |-> followup, trace_ok |-> trace_ok]

\* answers that can differ in a call on this orchestrator: a collaborator
\* that was not passed to the constructor gives no answer
Envs ==
    {Env(llm, pick, tts_ok, stt, followup, trace_ok) :
        llm \in IF cfg.ai_reasoning THEN {AllFail, SparkThenNulls} ELSE {AllFail},
        pick \in {0},
        tts_ok \in IF cfg.audio_processor THEN BOOLEAN ELSE {TRUE},
        stt \in IF cfg.audio_processor THEN {"error", BriefAnswer} ELSE {"error"},
        followup \in IF cfg.ai_reasoning
                     THEN {Failure, Json("Which index would you add, and why?", None, TRUE)}
                     ELSE {Failure},
        trace_ok \in {TRUE}}

\* a call that asks no question and hears no answer
TraceEnvs ==
    {Env(AllFail, 0, TRUE, "error", Failure, trace_ok) :
        trace_ok \in IF cfg.ai_reasoning THEN BOOLEAN ELSE {TRUE}}

Transcripts == {None, BriefAnswer, StrongAnswer}

Asked(sid) == IF Known(sid) THEN Len(sessions[sid].questions) ELSE 0

Answered(sid) ==
    IF Known(sid)
    THEN Cardinality({i \in 1..Len(sessions[sid].questions) :
                        sessions[sid].questions[i].evaluation # NoRec})
    ELSE 0

NoOutcome == Outcome("none", NoSession, NoRec, Failed("none"))

----------------------------------------------------------------------------
(* Spec: interviews as the API drives them: sessions are created, started, *)
(* answered, ended and reported on, by callers that may call in any order. *)

Init ==
    /\ cfg \in Configs
    /\ sessions = <<>>
    /\ callbacks = <<>>
    /\ tasks = <<>>
    /\ last = NoOutcome

Next ==
    \/ \E sid \in SessionIds, setup \in Setups : CreateSession(sid, setup)
    \/ \E sid \in SessionIds, env \in Envs : StartInterview(sid, env)
    \/ \E sid \in SessionIds, env \in Envs :
            Asked(sid) <= MaxAnswers /\ AskNextQuestion(sid, env)
    \/ \E sid \in SessionIds, audio_data \in BOOLEAN,
          transcript \in Transcripts, env \in Envs :
            Answered(sid) < MaxAnswers
            /\ SubmitResponse(sid, audio_data, transcript, env)
    \/ \E sid \in SessionIds, env \in TraceEnvs : EndInterview(sid, env)
    \/ \E sid \in SessionIds : GenerateReport(sid)

Spec == Init /\ [][Next]_vars

----------------------------------------------------------------------------
(* SpecMachine: the state machine driven directly.  Callers register       *)
(* observers and request transitions themselves, next to the calls that    *)
(* ask questions, end the interview and report.                            *)

QuietEnvs ==
    {Env(AllFail, 0, tts_ok, "error", Failure, trace_ok) :
        tts_ok \in IF cfg.audio_processor THEN BOOLEAN ELSE {TRUE},
        trace_ok \in IF cfg.ai_reasoning THEN BOOLEAN ELSE {TRUE}}

InitMachine ==
    /\ cfg \in {c \in Configs : c.evaluation_engine}
    /\ sessions = <<>>
    /\ callbacks = <<>>
    /\ tasks = <<>>
    /\ last = NoOutcome

NextMachine ==
    \/ \E sid \in SessionIds, setup \in Setups : CreateSession(sid, setup)
    \/ \E kind \in {"ok", "raises"} : OnStateChange(kind)
    \/ \E sid \in SessionIds, new_state \in InterviewState, env \in TraceEnvs :
            Transition(sid, new_state,
                       IF new_state = "error" THEN "boom" ELSE None, env)
    \/ \E sid \in SessionIds, env \in QuietEnvs : StartInterview(sid, env)
    \/ \E sid \in SessionIds, env \in QuietEnvs :
            Asked(sid) < MaxAsked /\ AskNextQuestion(sid, env)
    \/ \E sid \in SessionIds, env \in TraceEnvs : EndInterview(sid, env)
    \/ \E sid \in SessionIds : GenerateReport(sid)

SpecMachine == InitMachine /\ [][NextMachine]_vars

----------------------------------------------------------------------------
(* SpecDeep: one interview in structured_followup mode answered to its     *)
(* end, with answers that call for a follow-up and answers that do not.    *)

DeepSetups ==
    {InterviewSetup("senior_data_engineer", "structured_followup", n) :
        n \in QuestionBudgets}

DeepEnvs == {Env(AllFail, 0, TRUE, "error", Failure, TRUE)}

InitDeep ==
    /\ cfg \in {c \in Configs : c.ai_reasoning = c.evaluation_engine
                                /\ ~c.audio_processor}
    /\ sessions = <<>>
    /\ callbacks = <<>>
    /\ tasks = <<>>
    /\ last = NoOutcome

NextDeep ==
    \/ \E sid \in SessionIds, setup \in DeepSetups : CreateSession(sid, setup)
    \/ \E sid \in SessionIds, env \in DeepEnvs : StartInterview(sid, env)
    \/ \E sid \in SessionIds, env \in DeepEnvs : AskNextQuestion(sid, env)
    \/ \E sid \in SessionIds, transcript \in {BriefAnswer, SolidAnswer},
          env \in DeepEnvs :
            SubmitResponse(sid, FALSE, transcript, env)

SpecDeep == InitDeep /\ [][NextDeep]_vars

----------------------------------------------------------------------------
(* SpecConcurrent: the entry points called concurrently on one session.    *)
(* The orchestrator holds no lock: a start_interview or submit_response    *)
(* call is suspended at its await of the AI layer (an HTTP request to the  *)
(* model) and goes on when the answer arrives, on the session object as it *)
(* is then.  Other calls arrive while it is suspended; end_interview and   *)
(* generate_report, which await nothing outside the orchestrator, run to   *)
(* their end.                                                              *)

\* a call gets to an await of the AI layer and is suspended there, or ends
\* before it
Begin(op, sid, c) ==
    IF Awaiting(c)
    THEN /\ sessions' = [sessions EXCEPT ![sid] = c.s]
         /\ tasks' = Append(tasks, [op |-> op, sid |-> sid, c |-> c])
         /\ UNCHANGED <<cfg, callbacks, last>>
    ELSE Finish(op, sid, c)

BeginStartInterview(sid, env) ==
    \/ NotFound("start_interview", sid)
    \/ /\ Known(sid)
       /\ Begin("start_interview", sid, StartBegin(Call(sessions[sid], env)))

BeginSubmitResponse(sid, transcript, env) ==
    \/ NotFound("submit_response", sid)
    \/ /\ Known(sid)
       /\ Begin("submit_response", sid,
                SubmitBegin(Call(sessions[sid], env), FALSE, transcript))

\* the awaited answer arrives: a suspended call goes on to its end; the
\* outcome tells the session as the call found it when it went on
Resume ==
    \E n \in 1..Len(tasks) :
        LET t == tasks[n]
            c == Continue([t.c EXCEPT !.s = sessions[t.sid], !.resumed = TRUE])
        IN  /\ sessions' = [sessions EXCEPT ![t.sid] = c.s]
            /\ last' = Outcome(t.op, t.sid, sessions[t.sid], c)
            /\ tasks' = SubSeq(tasks, 1, n - 1) \o SubSeq(tasks, n + 1, Len(tasks))
            /\ UNCHANGED <<cfg, callbacks>>

InitConcurrent ==
    /\ cfg \in {c \in Configs : c.ai_reasoning /\ ~c.audio_processor}
    /\ sessions = <<>>
    /\ callbacks = <<>>
    /\ tasks = <<>>
    /\ last = NoOutcome

NextConcurrent ==
    \/ \E sid \in SessionIds, setup \in Setups : CreateSession(sid, setup)
    \/ \E sid \in SessionIds, env \in Envs : BeginStartInterview(sid, env)
    \/ \E sid \in SessionIds, transcript \in Transcripts, env \in Envs :
            Answered(sid) < MaxAnswers
            /\ BeginSubmitResponse(sid, transcript, env)
    \/ Resume
    \/ \E sid \in SessionIds, env \in TraceEnvs : EndInterview(sid, env)
    \/ \E sid \in SessionIds : GenerateReport(sid)

SpecConcurrent == InitConcurrent /\ [][NextConcurrent]_vars

----------------------------------------------------------------------------
(* SpecDifficulty: the difficulty adaptation of _decide_next_action on its *)
(* own, applied to a new session of any role with any sequence of          *)
(* difficulty deltas an evaluation can carry.                              *)

\* ResponseEvaluation.difficulty_delta: Field(ge=-2, le=2)
DifficultyDeltas == -2..2

Adapt(sid, difficulty_delta) ==
    /\ Known(sid)
    /\ Len(sessions[sid].difficulty_history) < MaxAdaptations
    /\ sessions' = [sessions EXCEPT
                        ![sid] = AdaptDifficulty(@, difficulty_delta)]
    /\ last' = Outcome("adapt_difficulty", sid, sessions[sid],
                       Call(AdaptDifficulty(sessions[sid], difficulty_delta),
                            NoEnv))
    /\ UNCHANGED <<cfg, callbacks, tasks>>

InitDifficulty ==
    /\ cfg = [ai_reasoning |-> FALSE, audio_processor |-> FALSE,
              evaluation_engine |-> FALSE]
    /\ \E sid \in SessionIds, role \in Roles, mode \in Modes :
            sessions = (sid :> create_session(sid,
                            InterviewSetup(role, mode, MinQuestions)))
    /\ callbacks = <<>>
    /\ tasks = <<>>
    /\ last = NoOutcome

NextDifficulty ==
    \E sid \in SessionIds, difficulty_delta \in DifficultyDeltas :
        Adapt(sid, difficulty_delta)

SpecDifficulty == InitDifficulty /\ [][NextDifficulty]_vars

----------------------------------------------------------------------------
(* SpecFollowup: interviews in structured_followup mode on an orchestrator *)
(* with an AI layer whose follow-up decider answers in every way it can:   *)
(* with a failed request, a JSON object holding a question, a JSON object  *)
(* whose question is itself JSON or a bracketed text, a JSON object        *)
(* without a question, a JSON object that declines the follow-up, and     *)
(* text that is no JSON object.                                            *)

FollowupAnswers ==
    {Failure,
     Json("Which index would you add, and why?", None, TRUE),
     Json("{\"question\": \"Why?\"}", None, TRUE),
     Json(" [probe] Why?", None, TRUE),
     Json(None, None, TRUE),
     Json(None, None, FALSE),
     Raw(" [probe] Why?"),
     Raw("Which index would you add, and why?")}

FollowupEnvs ==
    {Env(AllFail, 0, TRUE, "error", followup, TRUE) :
        followup \in FollowupAnswers}

InitFollowup ==
    /\ cfg \in {c \in Configs : c.ai_reasoning /\ ~c.audio_processor}
    /\ sessions = <<>>
    /\ callbacks = <<>>
    /\ tasks = <<>>
    /\ last = NoOutcome

NextFollowup ==
    \/ \E sid \in SessionIds, setup \in DeepSetups : CreateSession(sid, setup)
    \/ \E sid \in SessionIds, env \in DeepEnvs : StartInterview(sid, env)
    \/ \E sid \in SessionIds, transcript \in {BriefAnswer, StrongAnswer},
          env \in FollowupEnvs :
            Answered(sid) < MaxFollowupAnswers
            /\ SubmitResponse(sid, FALSE, transcript, env)

SpecFollowup == InitFollowup /\ [][NextFollowup]_vars

----------------------------------------------------------------------------
(* Properties.  Each is stated over the outcome of the last call (last):   *)
(* last.before is the session as the call found it, sessions[last.sid] the *)
(* session as the call left it.                                            *)

OnSession == last.before # NoRec

Before == last.before
After == sessions[last.sid]

\* the question the last submit_response answered, as it is stored now
AnsweredQuestion == After.questions[Before.current_question_index + 1]

\* the last call reached the decision that follows the evaluation
Decided == \E i \in 1..Len(last.path) : last.path[i].new_state = "deciding"

\* the state changes of a call lead from one state to the other, each
\* starting where the one before it ended
PathLinks(from, path, to) ==
    /\ \A i \in 1..Len(path) :
          path[i].old_state = IF i = 1 THEN from ELSE path[i - 1].new_state
    /\ to = IF path = <<>> THEN from ELSE path[Len(path)].new_state

\* C1: a transition_state call whose target is not in the allowed set of
\* the session's state raises StateTransitionError and leaves the session
\* as it was: same state, no timestamp, no error message, no state change
\* logged and no observer awaited.
C1_InvalidTransitionRejected ==
    (/\ last.op = "transition_state"
     /\ OnSession
     /\ last.target \notin VALID_TRANSITIONS[Before.state])
    => /\ last.exc = "StateTransitionError"
       /\ After = Before
       /\ last.stamped = {}
       /\ last.path = <<>>
       /\ last.notified = <<>>

C1_Witness ==
    /\ last.op = "transition_state"
    /\ OnSession
    /\ Before.state = "listening"
    /\ last.target = "asking"
    /\ last.exc = "StateTransitionError"
    /\ Len(callbacks) = MaxObservers

\* C2: whatever create_session, start_interview, ask_next_question,
\* submit_response, end_interview and generate_report do to a session's
\* state, they do through transition_state: the state a call leaves is the
\* end of the chain of validated state changes it made, and every change
\* is an edge of VALID_TRANSITIONS.  A new session is in state setup.
C2_StateChangesAreEdges ==
    /\ last.op = "create_session"
        => After.state = "setup" /\ last.path = <<>>
    /\ (/\ last.op \in {"start_interview", "ask_next_question",
                        "submit_response", "end_interview", "generate_report"}
        /\ OnSession)
        => /\ PathLinks(Before.state, last.path, After.state)
           /\ \A i \in 1..Len(last.path) :
                last.path[i].new_state
                    \in VALID_TRANSITIONS[last.path[i].old_state]

C2_Witness ==
    /\ last.op = "submit_response"
    /\ Len(last.path) = 5
    /\ After.state = "listening"

\* C3: in every session the two counters add up to the number of questions
\* and total_core_questions_asked counts the questions that are not
\* follow-ups.
C3_CountersMatchQuestions ==
    \A sid \in DOMAIN sessions :
        LET s == sessions[sid]
        IN  /\ s.total_core_questions_asked + s.total_followups_asked
                    = Len(s.questions)
            /\ s.total_core_questions_asked
                    = Cardinality({i \in 1..Len(s.questions) :
                                        ~s.questions[i].is_followup})

C3_Witness ==
    \E sid \in DOMAIN sessions :
        /\ sessions[sid].total_core_questions_asked >= 2
        /\ sessions[sid].total_followups_asked >= 1

\* C4: total_followups_asked never exceeds max_questions * 2, and a
\* submit_response that finds it at max_questions * 2 or more asks no
\* follow-up, whatever the evaluation says.
C4_FollowupCap ==
    /\ \A sid \in DOMAIN sessions :
          sessions[sid].total_followups_asked
              <= sessions[sid].setup.max_questions * 2
    /\ (/\ last.op = "submit_response"
        /\ OnSession
        /\ Before.total_followups_asked >= Before.setup.max_questions * 2)
        => /\ last.action # "followup"
           /\ After.total_followups_asked = Before.total_followups_asked

C4_Witness ==
    /\ last.op = "submit_response"
    /\ OnSession
    /\ Before.total_followups_asked = Before.setup.max_questions * 2
    /\ Before.setup.mode = "structured_followup"
    /\ Decided
    /\ AnsweredQuestion.evaluation.needs_followup
    /\ last.action = "question"

\* C5 as stated: once max_questions core questions have been asked, the
\* next decision of submit_response completes the interview.
C5_NextDecisionCompletes ==
    (/\ last.op = "submit_response"
     /\ OnSession
     /\ Decided
     /\ Before.total_core_questions_asked = Before.setup.max_questions)
    => /\ last.action = "complete"
       /\ After.state = "complete"

\* C5: once max_questions core questions have been asked, the next
\* decision of submit_response that does not ask a follow-up completes the
\* interview: state complete, action complete, no question appended.
C5_CompletesUnlessFollowup ==
    (/\ last.op = "submit_response"
     /\ OnSession
     /\ Decided
     /\ Before.total_core_questions_asked = Before.setup.max_questions
     /\ last.action # "followup")
    => /\ last.action = "complete"
       /\ After.state = "complete"
       /\ last.added = 0

C5_Witness ==
    /\ last.op = "submit_response"
    /\ OnSession
    /\ Decided
    /\ Before.total_core_questions_asked = Before.setup.max_questions
    /\ last.action = "complete"
    /\ After.state = "complete"

\* C6: generate_report on a session in state complete or generating_report
\* returns the report, having passed through generating_report to
\* finished; in any other state it raises InterviewNotComplete and leaves
\* the session as it was.
C6_ReportContract ==
    (last.op = "generate_report" /\ OnSession)
    => IF Before.state \in {"complete", "generating_report"}
       THEN /\ last.exc = "none"
            /\ last.action = "report"
            /\ After.state = "finished"
            /\ last.path[Len(last.path)].old_state = "generating_report"
       ELSE /\ last.exc = "InterviewNotComplete"
            /\ After = Before

\* C7: an ask_next_question call that finds should_end_interview() true
\* moves the session to complete and returns action complete, appending no
\* question.
C7_AskWhenOverCompletes ==
    (/\ last.op = "ask_next_question"
     /\ OnSession
     /\ should_end_interview(Before))
    => /\ last.exc = "none"
       /\ last.action = "complete"
       /\ After.state = "complete"
       /\ last.added = 0

\* the texts the AI layer falls back to
FallbackQuestionTexts(role) ==
    {fallback_questions(role)[i].text : i \in 1..Len(fallback_questions(role))}

FallbackFollowupTexts ==
    {"Could you explain that concept in simpler terms?",
     "Can you provide a specific example from your experience?",
     "What would you do differently if the scale was 10x larger?"}

\* C8: a start_interview, ask_next_question or submit_response call during
\* which a request of the question generator or of the follow-up decider
\* raised still returns: nothing is raised, the action is question,
\* followup or complete, and the session is left in listening or complete.
\* When the request was the last resort, the question delivered is the
\* fallback: an entry of the role's fallback pool, or the fixed follow-up
\* text of the score band.
C8_CollaboratorFailureAbsorbed ==
    (/\ last.op \in {"start_interview", "ask_next_question", "submit_response"}
     /\ OnSession
     /\ last.llm_error)
    => /\ last.exc = "none"
       /\ last.action \in {"question", "followup", "complete"}
       /\ After.state \in {"listening", "complete"}
       /\ (last.fallback /\ last.action = "question")
            => get_current_question(After).question_text
                    \in FallbackQuestionTexts(After.setup.target_role)
       /\ (last.fallback /\ last.action = "followup")
            => get_current_question(After).question_text
                    \in FallbackFollowupTexts

C8_Witness ==
    /\ last.op = "submit_response"
    /\ OnSession
    /\ last.llm_error
    /\ last.fallback
    /\ last.action = "followup"
    /\ After.state = "listening"

\* C9: when speech synthesis fails, or there is no audio processor, while
\* a question or a follow-up is delivered, the question is appended and
\* returned without an audio handle and the session gets to listening;
\* nothing is raised.
C9_AudioFailureDoesNotBlock ==
    (/\ last.op \in {"start_interview", "ask_next_question", "submit_response"}
     /\ OnSession
     /\ \/ last.tts_error
        \/ ~cfg.audio_processor /\ last.added = 1)
    => /\ last.exc = "none"
       /\ last.action \in {"question", "followup"}
       /\ last.added = 1
       /\ Len(After.questions) = Len(Before.questions) + 1
       /\ get_current_question(After).question_audio_url = None
       /\ last.audio \in {None, ""}
       /\ After.state = "listening"

C9_Witness ==
    /\ last.op = "submit_response"
    /\ OnSession
    /\ last.tts_error
    /\ last.action = "followup"
    /\ After.state = "listening"

\* C10: a submit_response call with audio and no transcript, on an
\* orchestrator whose speech-to-text is missing or fails, records the
\* placeholder transcript and goes on to the decision: nothing is raised
\* and the session is not left in processing.
C10_TranscriptionFailureAbsorbed ==
    (/\ last.op = "submit_response"
     /\ OnSession
     /\ last.stt \in {"absent", "error"})
    => /\ last.exc = "none"
       /\ AnsweredQuestion.response_transcript = TranscriptionUnavailable
       /\ Decided
       /\ After.state # "processing"

\* the call op made on session s with new_state as its target, in an
\* environment env
Redo(op, s, env, new_state) ==
    CASE op = "transition_state" ->
            transition_state([Call(s, env) EXCEPT !.target = new_state],
                             new_state,
                             IF new_state = "error" THEN "boom" ELSE None)
      [] op = "start_interview"   -> start_interview(Call(s, env))
      [] op = "ask_next_question" -> ask_next_question(Call(s, env))
      [] op = "end_interview"     -> end_interview(Call(s, env))
      [] op = "generate_report"   -> generate_report(Call(s, env))

C11_WitnessStart ==
    /\ last.op = "start_interview"
    /\ last.trace_error
    /\ last.action = "question"
    /\ After.state = "listening"
    /\ Len(last.notified) = 3 * MaxObservers

\* C12: every state change a call made was notified to every registered
\* observer once, in registration order, with the session id and the old
\* and the new state, whether or not an observer before it raised; a
\* transition_state call with an allowed target then returns with the
\* session in the new state.
C12_ObserversNotified ==
    (OnSession /\ last.op # "create_session")
    => /\ Len(last.notified) = Len(last.path) * Len(callbacks)
       /\ \A j \in 1..Len(last.path), i \in 1..Len(callbacks) :
            last.notified[(j - 1) * Len(callbacks) + i]
                = [observer   |-> i,
                   session_id |-> last.sid,
                   old_state  |-> last.path[j].old_state,
                   new_state  |-> last.path[j].new_state,
                   raised     |-> callbacks[i] = "raises"]
       /\ (/\ last.op = "transition_state"
           /\ last.target \in VALID_TRANSITIONS[Before.state])
            => /\ last.exc = "none"
               /\ After.state = last.target
               /\ last.path = <<[old_state |-> Before.state,
                                 new_state |-> last.target]>>

C12_Witness ==
    /\ last.op = "transition_state"
    /\ OnSession
    /\ callbacks = <<"raises", "ok">>
    /\ last.exc = "none"
    /\ After.state = last.target
    /\ Len(last.notified) = 2
    /\ last.notified[1].raised
    /\ last.notified[2].observer = 2

\* C13: a call that was suspended at the AI layer and goes on after the
\* session has become complete writes nothing to the session: no question
\* is appended, no counter incremented, no evaluation and no score
\* recorded.
C13_NoWriteAfterComplete ==
    (/\ OnSession
     /\ last.resumed
     /\ Before.state = "complete")
    => /\ After.questions = Before.questions
       /\ After.total_core_questions_asked = Before.total_core_questions_asked
       /\ After.total_followups_asked = Before.total_followups_asked
       /\ After.skill_scores = Before.skill_scores
       /\ After.running_score = Before.running_score
       /\ last.added = 0

\* C14: a call of start_interview, ask_next_question, submit_response,
\* end_interview, generate_report or transition_state on a session that is
\* finished or cancelled leaves every field of the session as it was and
\* stores no timestamp.
C14_TerminalSessionFrozen ==
    (/\ OnSession
     /\ last.op \in {"start_interview", "ask_next_question", "submit_response",
                     "end_interview", "generate_report", "transition_state"}
     /\ Before.state \in {"finished", "cancelled"})
    => /\ After = Before
       /\ last.stamped = {}

\* C15: end_interview on a session that is ready, asking, listening,
\* processing, evaluating, deciding or paused returns action ended with
\* questions_completed equal to the number of questions, having stored
\* completed_at and moved the session to complete; nothing else of the
\* session changes.
C15_EndInterviewCompletes ==
    (/\ last.op = "end_interview"
     /\ OnSession
     /\ Before.state \in {"ready", "asking", "listening", "processing",
                          "evaluating", "deciding", "paused"})
    => /\ last.exc = "none"
       /\ last.action = "ended"
       /\ last.questions_completed = Len(Before.questions)
       /\ "completed_at" \in last.stamped
       /\ last.path = <<[old_state |-> Before.state, new_state |-> "complete"]>>
       /\ After = [Before EXCEPT !.state = "complete", !.completed_at = TRUE]

C15_Witness ==
    /\ last.op = "end_interview"
    /\ OnSession
    /\ Before.state = "evaluating"
    /\ After.state = "complete"
    /\ last.questions_completed = MaxAsked

\* C16: in every session, whatever its role and whatever difficulty deltas
\* between -2 and 2 its evaluations carried, current_difficulty and every
\* entry of difficulty_history lie between 1 and 10.
C16_DifficultyInRange ==
    \A sid \in DOMAIN sessions :
        LET s == sessions[sid]
        IN  /\ s.current_difficulty \in 1..10
            /\ \A i \in 1..Len(s.difficulty_history) :
                    s.difficulty_history[i] \in 1..10

C16_Witness ==
    \E sid \in DOMAIN sessions :
        /\ sessions[sid].setup.target_role = "junior_data_engineer"
        /\ sessions[sid].difficulty_history = <<1, 1>>
        /\ last.op = "adapt_difficulty"
        /\ last.before.current_difficulty = 1

\* C17: a submit_response call on a listening session with fewer than
\* max_questions core questions asked, whose evaluation needs no follow-up
\* and carries difficulty delta d, returns action question: one question
\* that is not a follow-up is appended, current_difficulty becomes the old
\* difficulty plus d brought into 1..10 and is appended to the history,
\* and the session is listening again.
C17_NextCoreQuestion ==
    (/\ last.op = "submit_response"
     /\ OnSession
     /\ Before.state = "listening"
     /\ Decided
     /\ ~AnsweredQuestion.evaluation.needs_followup
     /\ Before.total_core_questions_asked < Before.setup.max_questions)
    => LET d == AnsweredQuestion.evaluation.difficulty_delta
           difficulty ==
               IF Before.current_difficulty + d > 10 THEN 10
               ELSE IF Before.current_difficulty + d < 1 THEN 1
               ELSE Before.current_difficulty + d
       IN  /\ last.exc = "none"
           /\ last.action = "question"
           /\ last.added = 1
           /\ Len(After.questions) = Len(Before.questions) + 1
           /\ ~After.questions[Len(After.questions)].is_followup
           /\ After.total_core_questions_asked
                = Before.total_core_questions_asked + 1
           /\ After.total_followups_asked = Before.total_followups_asked
           /\ After.current_difficulty = difficulty
           /\ After.difficulty_history
                = Append(Before.difficulty_history, difficulty)
           /\ After.state = "listening"

C17_Witness ==
    /\ last.op = "submit_response"
    /\ OnSession
    /\ Before.state = "listening"
    /\ Decided
    /\ Before.setup.mode = "structured_followup"
    /\ ~AnsweredQuestion.evaluation.needs_followup
    /\ AnsweredQuestion.evaluation.difficulty_delta = 1
    /\ last.action = "question"
    /\ After.current_difficulty = Before.current_difficulty + 1
    /\ After.state = "listening"

\* C18: a submit_response call whose evaluation needs a follow-up, on a
\* session in structured_followup mode with fewer than max_questions * 2
\* follow-ups asked, returns action followup: the question appended is a
\* follow-up whose parent_question_id is the id of the question that was
\* answered and whose skill is that question's skill, and the session is
\* listening again.
C18_FollowupAsked ==
    (/\ last.op = "submit_response"
     /\ OnSession
     /\ Decided
     /\ AnsweredQuestion.evaluation.needs_followup
     /\ Before.setup.mode = "structured_followup"
     /\ Before.total_followups_asked < Before.setup.max_questions * 2)
    => /\ last.exc = "none"
       /\ last.action = "followup"
       /\ Len(After.questions) = Len(Before.questions) + 1
       /\ LET asked == After.questions[Len(After.questions)]
          IN  /\ asked.is_followup
              /\ asked.parent_question_id = AnsweredQuestion.question_id
              /\ asked.skill_id = AnsweredQuestion.skill_id
              /\ asked = get_current_question(After)
       /\ After.total_followups_asked = Before.total_followups_asked + 1
       /\ After.total_core_questions_asked = Before.total_core_questions_asked
       /\ After.state = "listening"

C18_Witness ==
    /\ last.op = "submit_response"
    /\ OnSession
    /\ Decided
    /\ AnsweredQuestion.is_followup
    /\ AnsweredQuestion.evaluation.needs_followup
    /\ last.action = "followup"
    /\ After.questions[Len(After.questions)].parent_question_id
            = AnsweredQuestion.question_id
    /\ After.state = "listening"

\* C19: no follow-up stored in a session has a text that begins, after
\* trimming, with "{" or "["; and when the follow-up decider gave such a
\* text, the follow-up delivered is the generic probe.
C19_NoJsonFollowup ==
    /\ \A sid \in DOMAIN sessions :
          \A i \in 1..Len(sessions[sid].questions) :
              sessions[sid].questions[i].is_followup
                  => ~LooksLikeJson(sessions[sid].questions[i].question_text)
    /\ (/\ last.op = "submit_response"
        /\ OnSession
        /\ last.followup_question # None
        /\ LooksLikeJson(last.followup_question))
        => /\ last.action = "followup"
           /\ get_current_question(After).is_followup
           /\ get_current_question(After).question_text
                = "Can you provide a specific example from your experience?"

C19_Witness ==
    /\ last.op = "submit_response"
    /\ OnSession
    /\ last.followup_question = " [probe] Why?"
    /\ last.action = "followup"
    /\ get_current_question(After).question_text
            = "Can you provide a specific example from your experience?"
    /\ After.state = "listening"

\* every question of every session counts as asked
EveryQuestionAsked ==
    \A sid \in DOMAIN sessions :
        \A i \in 1..Len(sessions[sid].questions) :
            is_question_asked(sessions[sid],
                              sessions[sid].questions[i].question_text)

\* a step keeps every session, its questions and its question hashes
HashesOnlyGrow ==
    \A sid \in DOMAIN sessions :
        /\ sid \in DOMAIN sessions'
        /\ sessions[sid].asked_question_hashes
                \subseteq sessions'[sid].asked_question_hashes
        /\ Len(sessions[sid].questions) <= Len(sessions'[sid].questions)
        /\ \A i \in 1..Len(sessions[sid].questions) :
                sessions'[sid].questions[i].question_text
                    = sessions[sid].questions[i].question_text

\* C20: is_question_asked is true of the text of every question from the
\* moment add_question has added it and through every later call on the
\* session; the set of question hashes only grows.
C20_AskedStaysAsked == []EveryQuestionAsked /\ [][HashesOnlyGrow]_vars

C20_Witness ==
    \E sid \in DOMAIN sessions :
        /\ Len(sessions[sid].questions) = 3
        /\ Cardinality(sessions[sid].asked_question_hashes) = 3
        /\ is_question_asked(sessions[sid],
                             sessions[sid].questions[1].question_text)
        /\ last.op = "generate_report"
        /\ last.exc = "none"

----------------------------------------------------------------------------
(* SpecBudget: one interview in structured mode taken up to its question   *)
(* budget, with callers that also move the state machine themselves and    *)
(* ask the session whether the interview should end.                       *)

\* session.should_end_interview(), as a caller holding the session asks it
ShouldEndInterview(sid) ==
    /\ Known(sid)
    /\ last' = Outcome("should_end_interview", sid, sessions[sid],
                       [Call(sessions[sid], NoEnv) EXCEPT
                            !.result = should_end_interview(sessions[sid])])
    /\ UNCHANGED <<cfg, sessions, callbacks, tasks>>

BudgetSetups ==
    {InterviewSetup("senior_data_engineer", "structured", n) :
        n \in QuestionBudgets}

InitBudget ==
    /\ cfg = [ai_reasoning |-> FALSE, audio_processor |-> FALSE,
              evaluation_engine |-> FALSE]
    /\ sessions = <<>>
    /\ callbacks = <<>>
    /\ tasks = <<>>
    /\ last = NoOutcome

NextBudget ==
    \/ \E sid \in SessionIds, setup \in BudgetSetups : CreateSession(sid, setup)
    \/ \E sid \in SessionIds, env \in DeepEnvs : StartInterview(sid, env)
    \/ \E sid \in SessionIds, env \in DeepEnvs :
            SubmitResponse(sid, FALSE, StrongAnswer, env)
    \/ \E sid \in SessionIds, new_state \in InterviewState, env \in DeepEnvs :
            Transition(sid, new_state,
                       IF new_state = "error" THEN "boom" ELSE None, env)
    \/ \E sid \in SessionIds : ShouldEndInterview(sid)

SpecBudget == InitBudget /\ [][NextBudget]_vars

\* C21: should_end_interview answers true when the core questions asked
\* have reached setup.max_questions, true when the state is complete,
\* cancelled or error, and false in every other case: also in
\* generating_report, finished and paused below the budget.
C21_ShouldEndInterview ==
    (last.op = "should_end_interview") =>
        LET spent == Before.total_core_questions_asked
                        >= Before.setup.max_questions
            over == Before.state \in {"complete", "cancelled", "error"}
        IN  /\ last.result \in BOOLEAN
            /\ spent => last.result
            /\ over => last.result
            /\ (~spent /\ ~over) => ~last.result
            /\ After = Before

\* asked in a state without a way on, one question below the budget: false
C21_Witness ==
    /\ last.op = "should_end_interview"
    /\ Before.state \in {"generating_report", "finished", "paused"}
    /\ Before.total_core_questions_asked = Before.setup.max_questions - 1
    /\ last.result = FALSE

\* asked while the last question of the budget waits for its answer: true
C21_WitnessSpent ==
    /\ last.op = "should_end_interview"
    /\ Before.state = "listening"
    /\ Before.total_core_questions_asked = Before.setup.max_questions
    /\ last.result = TRUE

\* the question the last call appended to the session
NewQuestion == After.questions[Len(After.questions)]

\* C22: after a question that is no follow-up has been added, the context
\* buffer holds exactly one entry, the interviewer's turn with the text of
\* the new question, and the follow-up counter of the current question is
\* 0, whatever the buffer and the counter held before.
C22_CoreQuestionResetsContext ==
    (OnSession /\ last.added > 0 /\ ~NewQuestion.is_followup) =>
        /\ After.current_question_context =
                <<[role |-> "interviewer",
                   content |-> NewQuestion.question_text]>>
        /\ After.current_question_followups = 0

\* a core question added after a follow-up was asked and answered
C22_Witness ==
    /\ OnSession
    /\ last.op = "submit_response"
    /\ last.added = 1
    /\ ~NewQuestion.is_followup
    /\ Before.current_question_followups = 1
    /\ Len(Before.current_question_context) = 3
    /\ Len(After.current_question_context) = 1

----------------------------------------------------------------------------
(* SpecSetup: sessions of every role and mode created with skill filters,  *)
(* then started and answered, on an orchestrator with and without an       *)
(* evaluation engine.                                                      *)

\* include_skills and exclude_skills as a caller can pass them: ids of the
\* catalog and ids the catalog does not hold
IncludeLists ==
    {{}, {"sql_aggregations"},
     {"sql_optimization_basics", "data_platform_design"}, {"kafka"}}

ExcludeLists ==
    {{}, {"data_platform_design"}, {"sql_basics", "sql_aggregations"}}

FilteredSetups ==
    {[InterviewSetup(role, mode, n) EXCEPT
            !.include_skills = include, !.exclude_skills = exclude] :
        role \in Roles, mode \in Modes, n \in QuestionBudgets,
        include \in IncludeLists, exclude \in ExcludeLists}

InitSetup ==
    /\ cfg \in {c \in Configs : ~c.ai_reasoning /\ ~c.audio_processor}
    /\ sessions = <<>>
    /\ callbacks = <<>>
    /\ tasks = <<>>
    /\ last = NoOutcome

NextSetup ==
    \/ \E sid \in SessionIds, setup \in FilteredSetups :
            CreateSession(sid, setup)
    \/ \E sid \in SessionIds, env \in DeepEnvs : StartInterview(sid, env)
    \/ \E sid \in SessionIds, transcript \in {BriefAnswer, StrongAnswer},
          env \in DeepEnvs :
            Answered(sid) < MaxAnswers
            /\ SubmitResponse(sid, FALSE, transcript, env)

SpecSetup == InitSetup /\ [][NextSetup]_vars

\* the skills of the catalog that apply to the role of a setup, restricted
\* to include_skills when that is not empty, with exclude_skills removed
SetupSkills(setup) ==
    {k \in DOMAIN applicable_roles :
        /\ setup.target_role \in applicable_roles[k]
        /\ setup.include_skills # {} => k \in setup.include_skills
        /\ k \notin setup.exclude_skills}

\* seq continues old
Extends(seq, old) ==
    Len(seq) >= Len(old) /\ \A i \in 1..Len(old) : seq[i] = old[i]

\* in a step, no session gains or loses a key and every list keeps what it
\* held
SkillKeysKept ==
    \A sid \in DOMAIN sessions :
        /\ sid \in DOMAIN sessions'
        /\ DOMAIN sessions'[sid].skill_scores = DOMAIN sessions[sid].skill_scores
        /\ \A k \in DOMAIN sessions[sid].skill_scores :
                Extends(sessions'[sid].skill_scores[k],
                        sessions[sid].skill_scores[k])

SkillKeysOfSetup ==
    \A sid \in DOMAIN sessions :
        DOMAIN sessions[sid].skill_scores = SetupSkills(sessions[sid].setup)

\* C23: the key set of skill_scores is the one create_session fixed (the
\* skills of the role after the include and exclude filters) and never
\* grows or shrinks; only the lists under the keys grow, and an evaluation
\* whose skill id is no key adds no key.
C23_SkillKeysFixed == []SkillKeysOfSetup /\ [][SkillKeysKept]_vars

\* an answer was evaluated under a skill id that is no key of the session:
\* the evaluation is stored with the question and the keys are as before
C23_Witness ==
    /\ OnSession
    /\ last.op = "submit_response"
    /\ last.exc = "none"
    /\ AnsweredQuestion.evaluation # NoRec
    /\ AnsweredQuestion.evaluation.skill_id \notin DOMAIN After.skill_scores
    /\ After.skill_scores = Before.skill_scores
    /\ DOMAIN After.skill_scores # {}

\* an answer was evaluated under a key of the session: its list grew
C23_WitnessGrown ==
    /\ OnSession
    /\ last.op = "submit_response"
    /\ last.exc = "none"
    /\ AnsweredQuestion.evaluation # NoRec
    /\ AnsweredQuestion.evaluation.skill_id \in DOMAIN After.skill_scores
    /\ Len(After.skill_scores[AnsweredQuestion.evaluation.skill_id]) = 2

\* C27: create_session gives a session in state setup with no questions,
\* whose skill_scores keys are exactly the catalog skills of the role,
\* restricted to include_skills when that is not empty and with
\* exclude_skills removed, each with an empty list, and whose difficulty is
\* the base difficulty of the role: 3, 5, 7, 8, 9 from junior to principal.
C27_NewSession ==
    (last.op = "create_session") =>
        /\ After.state = "setup"
        /\ After.questions = <<>>
        /\ DOMAIN After.skill_scores = SetupSkills(After.setup)
        /\ \A k \in DOMAIN After.skill_scores : After.skill_scores[k] = <<>>
        /\ After.current_difficulty =
                (CASE After.setup.target_role = "junior_data_engineer" -> 3
                   [] After.setup.target_role = "mid_data_engineer" -> 5
                   [] After.setup.target_role = "senior_data_engineer" -> 7
                   [] After.setup.target_role = "staff_data_engineer" -> 8
                   [] After.setup.target_role = "principal_data_engineer" -> 9)

\* a session created with both filters at work: one of the two skills the
\* include list lets through is excluded
C27_Witness ==
    /\ last.op = "create_session"
    /\ After.setup.target_role = "senior_data_engineer"
    /\ After.setup.include_skills =
            {"sql_optimization_basics", "data_platform_design"}
    /\ After.setup.exclude_skills = {"data_platform_design"}
    /\ DOMAIN After.skill_scores = {"sql_optimization_basics"}
    /\ After.current_difficulty = 7

\* C24: submit_response on a session that has no current question fails
\* with "No active question" and changes nothing: the state is not moved
\* to processing, no transcript, context turn or score is written and no
\* observer is notified.
C24_NoActiveQuestion ==
    (/\ OnSession
     /\ last.op = "submit_response"
     /\ \/ Before.questions = <<>>
        \/ Before.current_question_index >= Len(Before.questions)) =>
        /\ last.exc = "NoActiveQuestion"
        /\ After = Before
        /\ last.path = <<>>
        /\ last.notified = <<>>
        /\ last.action = None

\* an answer submitted to a session that is listening and was never asked
\* a question: processing would be a valid next state, and is not entered
C24_Witness ==
    /\ OnSession
    /\ last.op = "submit_response"
    /\ Before.state = "listening"
    /\ Before.questions = <<>>
    /\ last.exc = "NoActiveQuestion"
    /\ After.state = "listening"
    /\ After.current_question_context = <<>>

----------------------------------------------------------------------------
(* SpecViews: an interview driven through the API, with the two views a    *)
(* client can read at any time, the status of the session and the          *)
(* per-question details, and the report endpoint.                          *)

\* SessionStatusResponse of GET /{session_id}/status (the duration is not
\* carried)
get_session_status(s) ==
    [session_id         |-> s.session_id,
     state              |-> s.state,
     questions_asked    |-> s.total_core_questions_asked,
     current_difficulty |-> s.current_difficulty]

\* the dict of GET /{session_id}/questions: one entry per question, with
\* the scores of its evaluation under the key "scores" when the question
\* has one (the feedback texts, which the endpoint adds under the same
\* condition, are not carried)
get_question_details(s) ==
    [session_id      |-> s.session_id,
     total_questions |-> Len(s.questions),
     questions       |->
        [i \in 1..Len(s.questions) |->
            LET q == s.questions[i]
                question_data ==
                    [number              |-> i,
                     question_id         |-> q.question_id,
                     question_text       |-> q.question_text,
                     is_followup         |-> q.is_followup,
                     response_transcript |-> q.response_transcript]
            IN  IF q.evaluation # NoRec
                THEN question_data @@
                        [scores |-> [overall_score |->
                                        q.evaluation.overall_score]]
                ELSE question_data]]

\* a read of a view: 404 when the session is not known
View(op, sid, result) ==
    \/ NotFound(op, sid)
    \/ /\ Known(sid)
       /\ last' = Outcome(op, sid, sessions[sid],
                          [Call(sessions[sid], NoEnv) EXCEPT !.result = result])
       /\ UNCHANGED <<cfg, sessions, callbacks, tasks>>

GetSessionStatus(sid) ==
    View("get_session_status", sid,
         IF Known(sid) THEN get_session_status(sessions[sid]) ELSE None)

GetQuestionDetails(sid) ==
    View("get_question_details", sid,
         IF Known(sid) THEN get_question_details(sessions[sid]) ELSE None)

\* GET /report/{session_id} and GET /report/{session_id}/summary: the state
\* check (400), then orchestrator.generate_report, whose exceptions the
\* handler turns into a 500; of the response only session_id is carried
get_report(c) ==
    IF c.s.state \notin {"complete", "generating_report", "finished"}
    THEN [c EXCEPT !.exc = "HTTP 400"]
    ELSE LET c1 == generate_report(c)
         IN  IF Raised(c1)
             THEN [c1 EXCEPT !.exc = "HTTP 500"]
             ELSE [c1 EXCEPT !.result = [session_id |-> c1.s.session_id]]

GetReport(sid) ==
    \/ NotFound("get_report", sid)
    \/ /\ Known(sid)
       /\ Finish("get_report", sid, get_report(Call(sessions[sid], NoEnv)))

InitViews ==
    /\ cfg \in {c \in Configs : ~c.ai_reasoning /\ ~c.audio_processor}
    /\ sessions = <<>>
    /\ callbacks = <<>>
    /\ tasks = <<>>
    /\ last = NoOutcome

NextViews ==
    \/ \E sid \in SessionIds, setup \in Setups : CreateSession(sid, setup)
    \/ \E sid \in SessionIds, env \in DeepEnvs : StartInterview(sid, env)
    \/ \E sid \in SessionIds, transcript \in {BriefAnswer, StrongAnswer},
          env \in DeepEnvs :
            Answered(sid) < MaxAnswers
            /\ SubmitResponse(sid, FALSE, transcript, env)
    \/ \E sid \in SessionIds, env \in DeepEnvs : EndInterview(sid, env)
    \/ \E sid \in SessionIds : GenerateReport(sid)
    \/ \E sid \in SessionIds : GetSessionStatus(sid)
    \/ \E sid \in SessionIds : GetQuestionDetails(sid)
    \/ \E sid \in SessionIds : GetReport(sid)

SpecViews == InitViews /\ [][NextViews]_vars

\* the questions whose evaluation scores the last response shows
ExposedEvaluations ==
    IF last.op = "get_question_details" /\ OnSession
    THEN {i \in 1..Len(last.result.questions) :
            "scores" \in DOMAIN last.result.questions[i]}
    ELSE {}

\* C25: while the interview is in progress (the session has not reached
\* complete), no response to the user shows evaluation scores: not the
\* results of start_interview, submit_response and end_interview, not the
\* status view and not the per-question details view.
C25_EvaluationHidden ==
    (/\ OnSession
     /\ After.state \notin {"complete", "generating_report", "finished"}) =>
        ExposedEvaluations = {}

\* the position of the last question before position i that is no
\* follow-up (0 when there is none)
RECURSIVE CoreBefore(_, _)
CoreBefore(questions, i) ==
    IF i <= 1 THEN 0
    ELSE IF ~questions[i - 1].is_followup THEN i - 1
    ELSE CoreBefore(questions, i - 1)

\* C28: every follow-up in the question sequence is linked to its parent
\* core question: its parent_question_id is the id of the most recent
\* question before it that is no follow-up, also when the follow-up comes
\* after another follow-up.
C28_ParentIsCoreQuestion ==
    \A sid \in DOMAIN sessions :
        LET questions == sessions[sid].questions
        IN  \A i \in 1..Len(questions) :
                questions[i].is_followup =>
                    /\ CoreBefore(questions, i) > 0
                    /\ questions[i].parent_question_id =
                            questions[CoreBefore(questions, i)].question_id

----------------------------------------------------------------------------
(* SpecPair: two sessions on one orchestrator, each created, started,      *)
(* answered, ended and reported on in any order relative to the other.     *)

SessionPair == {1, 2}

PairTranscripts == {BriefAnswer, StrongAnswer}

InitPair ==
    /\ cfg = [ai_reasoning |-> FALSE, audio_processor |-> FALSE,
              evaluation_engine |-> TRUE]
    /\ sessions = <<>>
    /\ callbacks = <<>>
    /\ tasks = <<>>
    /\ last = NoOutcome

NextPair ==
    \/ \E sid \in SessionPair, setup \in Setups : CreateSession(sid, setup)
    \/ \E sid \in SessionPair, env \in DeepEnvs : StartInterview(sid, env)
    \/ \E sid \in SessionPair, transcript \in PairTranscripts,
          env \in DeepEnvs :
            Answered(sid) < MaxPairAnswers
            /\ SubmitResponse(sid, FALSE, transcript, env)
    \/ \E sid \in SessionPair, env \in DeepEnvs : EndInterview(sid, env)
    \/ \E sid \in SessionPair : GenerateReport(sid)

SpecPair == InitPair /\ [][NextPair]_vars

\* a step leaves every session but the one the call is made on as it was
OtherSessionsKept ==
    \A sid \in DOMAIN sessions :
        sid # last'.sid => /\ sid \in DOMAIN sessions'
                           /\ sessions'[sid] = sessions[sid]

\* the ways the call op can end on a session that is the only one
Alone(op, s) ==
    CASE op = "submit_response" ->
            {submit_response(Call(s, env), FALSE, transcript) :
                env \in DeepEnvs, transcript \in PairTranscripts}
      [] op = "create_session" -> {Call(create_session(s.session_id, s.setup), NoEnv)}
      [] OTHER -> {Redo(op, s, env, None) : env \in DeepEnvs}

\* the last call ended as it does on a session that is alone
AsIfAlone ==
    OnSession =>
        \E c \in Alone(last.op, Before) :
            /\ After = c.s
            /\ last = Outcome(last.op, last.sid, Before, c)

----------------------------------------------------------------------------
(* SpecFair: one interview in structured_followup mode with a candidate    *)
(* who goes on answering: a question that waits for its answer gets one in *)
(* the end.  Most answers are brief ones, which call for a follow-up.      *)

InState(sid, state) == Known(sid) /\ sessions[sid].state = state

SolidAnswers(sid) ==
    IF Known(sid)
    THEN Cardinality({i \in 1..Len(sessions[sid].questions) :
            sessions[sid].questions[i].response_transcript = SolidAnswer})
    ELSE 0

Answer ==
    \E sid \in SessionIds, transcript \in {BriefAnswer, SolidAnswer},
       env \in DeepEnvs :
        /\ transcript = SolidAnswer => SolidAnswers(sid) < MaxSolidAnswers
        /\ SubmitResponse(sid, FALSE, transcript, env)

NextFair ==
    \/ \E sid \in SessionIds, setup \in DeepSetups : CreateSession(sid, setup)
    \/ \E sid \in SessionIds, env \in DeepEnvs : StartInterview(sid, env)
    \/ \E sid \in SessionIds, env \in DeepEnvs : AskNextQuestion(sid, env)
    \/ Answer

\* a delivered question waits for its answer: submit_response can be
\* called and goes through
AnswerDue == \E sid \in SessionIds : InState(sid, "listening")

\* weak fairness of Answer, WF_vars(Answer), with AnswerDue as the condition
\* under which Answer is enabled
AnswerFairness == []<>(~AnswerDue) \/ []<><<Answer>>_vars

SpecFair == InitDeep /\ [][NextFair]_vars /\ AnswerFairness

QuestionsBounded ==
    \A sid \in DOMAIN sessions :
        Len(sessions[sid].questions) <= 3 * sessions[sid].setup.max_questions

\* C29: an interview terminates: the question sequence never holds more
\* than 3 * max_questions entries, and when every delivered question is
\* answered in the end, a session with a question delivered reaches
\* complete in the end.
C29_InterviewTerminates ==
    /\ []QuestionsBounded
    /\ \A sid \in SessionIds :
            InState(sid, "listening") ~> InState(sid, "complete")

\* the answer to the last core question of an interview that used up the
\* whole budget of core questions and of follow-ups
C29_Witness ==
    /\ OnSession
    /\ last.op = "submit_response"
    /\ Before.state = "listening"
    /\ After.state = "complete"
    /\ Len(After.questions) = 3 * After.setup.max_questions

\* in a step, a question that has an evaluation keeps its evaluation and
\* its transcript, and a transcript that was stored is kept
WrittenOnce ==
    \A sid \in DOMAIN sessions :
        \A i \in 1..Len(sessions[sid].questions) :
            LET q == sessions[sid].questions[i]
                written == sessions'[sid].questions[i]
            IN  /\ q.evaluation # NoRec =>
                    /\ written.evaluation = q.evaluation
                    /\ written.response_transcript = q.response_transcript
                /\ q.response_transcript # None =>
                    written.response_transcript = q.response_transcript

\* a submit_response call made when the current question has its
\* evaluation fails and leaves the session as it was
SecondSubmitFails ==
    (/\ OnSession
     /\ last.op = "submit_response"
     /\ ~last.resumed
     /\ Before.questions # <<>>
     /\ Before.questions[Before.current_question_index + 1].evaluation
            # NoRec) =>
        /\ last.exc # "none"
        /\ After = Before
        /\ last.added = 0

\* C30: the transcript and the evaluation of a question are written at
\* most once: under any sequence or interleaving of submit_response calls
\* a question that has an evaluation is never evaluated or overwritten
\* again, and a second submit_response for the same delivered question
\* fails without a change to the session.
C30_WrittenOnce == []SecondSubmitFails /\ [][WrittenOnce]_vars

\* a second submit_response arrives while the first one, which has stored
\* its evaluation, is suspended at the AI layer: it is rejected
C30_Witness ==
    /\ OnSession
    /\ last.op = "submit_response"
    /\ ~last.resumed
    /\ Len(tasks) = 1
    /\ tasks[1].op = "submit_response"
    /\ Before.questions # <<>>
    /\ Before.questions[Before.current_question_index + 1].evaluation # NoRec
    /\ last.exc = "StateTransitionError"
    /\ After = Before

\* no two calls on a session are suspended at the same time
OneCallSuspended == Len(tasks) <= 1

\* C31: no core question gets more than 2 follow-ups:
\* current_question_followups is at most 2 in every reachable state,
\* whatever the evaluations are.
C31_TwoFollowupsPerQuestion ==
    \A sid \in DOMAIN sessions :
        sessions[sid].current_question_followups <= 2

\* C32: a submit_response call whose decision does not take the follow-up
\* branch adds exactly one entry to difficulty_history, which is the new
\* current difficulty: the old one plus the difficulty delta of the
\* evaluation, brought into 1..10.  When the follow-up branch is taken,
\* current_difficulty and difficulty_history stay as they were: the delta
\* is not applied.
C32_DifficultyHistory ==
    (OnSession /\ last.op = "submit_response" /\ Decided) =>
        IF last.action = "followup"
        THEN /\ After.current_difficulty = Before.current_difficulty
             /\ After.difficulty_history = Before.difficulty_history
        ELSE LET d == AnsweredQuestion.evaluation.difficulty_delta
                 sum == Before.current_difficulty + d
             IN  /\ last.action \in {"question", "complete"}
                 /\ After.current_difficulty =
                        (IF sum > 10 THEN 10 ELSE IF sum < 1 THEN 1 ELSE sum)
                 /\ After.difficulty_history =
                        Append(Before.difficulty_history,
                               After.current_difficulty)

\* a follow-up asked after an evaluation that carries a delta: the
\* difficulty is as before
C32_Witness ==
    /\ OnSession
    /\ last.op = "submit_response"
    /\ Decided
    /\ last.action = "followup"
    /\ AnsweredQuestion.evaluation.difficulty_delta # 0
    /\ After.current_difficulty = Before.current_difficulty
    /\ After.difficulty_history = Before.difficulty_history

\* a decision for the next core question after a follow-up: one entry more
C32_WitnessAdapted ==
    /\ OnSession
    /\ last.op = "submit_response"
    /\ Decided
    /\ last.action = "question"
    /\ Before.current_question_followups = 1
    /\ Len(After.difficulty_history) = Len(Before.difficulty_history) + 1
    /\ After.current_difficulty # Before.current_difficulty

\* no session in structured or stress mode holds a follow-up
NoFollowupOutsideFollowupMode ==
    \A sid \in DOMAIN sessions :
        sessions[sid].setup.mode \in {"structured", "stress"} =>
            /\ sessions[sid].total_followups_asked = 0
            /\ \A i \in 1..Len(sessions[sid].questions) :
                    ~sessions[sid].questions[i].is_followup

\* C33: in the modes structured and stress no follow-up is ever asked,
\* whatever the evaluations say: total_followups_asked stays 0 and no
\* question of the sequence is a follow-up.  A follow-up is asked only
\* after an evaluation with needs_followup, in mode structured_followup,
\* with fewer than max_questions * 2 follow-ups asked.
C33_FollowupOnlyInFollowupMode ==
    /\ NoFollowupOutsideFollowupMode
    /\ (OnSession /\ last.added > 0 /\ NewQuestion.is_followup) =>
            /\ last.op = "submit_response"
            /\ AnsweredQuestion.evaluation.needs_followup
            /\ Before.setup.mode = "structured_followup"
            /\ Before.total_followups_asked < Before.setup.max_questions * 2

\* an answer in stress mode whose evaluation asks for a follow-up: the
\* next core question is asked
C33_Witness ==
    /\ OnSession
    /\ last.op = "submit_response"
    /\ Before.setup.mode = "stress"
    /\ Decided
    /\ AnsweredQuestion.evaluation.needs_followup
    /\ last.action = "question"
    /\ ~NewQuestion.is_followup
    /\ After.total_followups_asked = 0

----------------------------------------------------------------------------
(* The core-question budget *)

\* C36: the number of core questions asked never exceeds the session's
\* max_questions
C36_CoreQuestionsWithinBudget ==
    \A sid \in DOMAIN sessions :
        sessions[sid].total_core_questions_asked
            <= sessions[sid].setup.max_questions

\* the budget is used up: the last core question of a session was asked by
\* a submit_response
C36_Witness ==
    /\ OnSession
    /\ last.op = "submit_response"
    /\ last.action = "question"
    /\ After.total_core_questions_asked = After.setup.max_questions

----------------------------------------------------------------------------
(* Questions asked when no generated question is at hand *)

\* the pool the question of the last call was drawn from
PoolOf(s) ==
    IF cfg.ai_reasoning THEN fallback_questions(s.setup.target_role)
    ELSE question_pool

PoolTexts(s) == {PoolOf(s)[i].text : i \in 1..Len(PoolOf(s))}

\* the core questions of a session
CoreQuestions(s) ==
    SelectSeq(s.questions, LAMBDA q : ~q.is_followup)

PairwiseDistinct(qs) ==
    \A i, j \in 1..Len(qs) : i # j => qs[i].question_text # qs[j].question_text

\* C34: a core question taken from the pool had not been asked before unless
\* every entry of the pool had been asked, and without an AI generator the
\* core questions of a session are pairwise distinct
C34_FallbackAvoidsAsked ==
    /\ (OnSession /\ last.added > 0 /\ ~NewQuestion.is_followup
        /\ \E q \in PoolTexts(Before) : ~is_question_asked(Before, q))
            => ~is_question_asked(Before, NewQuestion.question_text)
    /\ ~cfg.ai_reasoning =>
            \A sid \in DOMAIN sessions :
                PairwiseDistinct(CoreQuestions(sessions[sid]))

\* the last core question of an interview without an AI generator is drawn
\* from a pool of which earlier questions have used up entries
C34_Witness ==
    /\ OnSession
    /\ ~cfg.ai_reasoning
    /\ last.added > 0
    /\ ~NewQuestion.is_followup
    /\ After.total_core_questions_asked = After.setup.max_questions
    /\ NewQuestion.question_text \in PoolTexts(Before)
    /\ \E q \in PoolTexts(Before) : is_question_asked(Before, q)

----------------------------------------------------------------------------
(* The running score *)

\* every score recorded in a session, over all skills
RecordedScores(s) == AllScores(s.skill_scores, SkillKeys(s))

\* C35: an evaluation's score is appended to the list of its skill exactly
\* when the skill id is a key of skill_scores, otherwise skill_scores and
\* running_score stay as they were; and once a score is recorded,
\* running_score is the mean of all recorded scores
C35_RunningScoreIsMean ==
    (OnSession /\ last.op = "submit_response" /\ Decided) =>
        LET evaluation == AnsweredQuestion.evaluation
            skill_id == evaluation.skill_id
        IN  /\ IF skill_id \in DOMAIN Before.skill_scores
               THEN After.skill_scores =
                        [Before.skill_scores EXCEPT ![skill_id] =
                            Append(@, evaluation.overall_score)]
               ELSE /\ After.skill_scores = Before.skill_scores
                    /\ After.running_score = Before.running_score
            /\ RecordedScores(After) # <<>> =>
                  After.running_score.sum * Len(RecordedScores(After)) =
                    SumSeq(RecordedScores(After)) * After.running_score.count

\* a second score, different from the first, is recorded
C35_Witness ==
    /\ OnSession
    /\ last.op = "submit_response"
    /\ Decided
    /\ AnsweredQuestion.evaluation.skill_id \in DOMAIN Before.skill_scores
    /\ Len(RecordedScores(After)) = 2
    /\ RecordedScores(After)[1] # RecordedScores(After)[2]
    /\ After.running_score.count = 2

----------------------------------------------------------------------------
(* A session that waits for an answer *)

\* the current question is there and unanswered, and the context buffer
\* ends with the interviewer's turn that carries its text
AwaitsAnswer(s) ==
    /\ get_current_question(s) # NoRec
    /\ get_current_question(s).response_transcript = None
    /\ get_current_question(s).evaluation = NoRec
    /\ s.current_question_context # <<>>
    /\ s.current_question_context[Len(s.current_question_context)] =
            Turn("interviewer", get_current_question(s).question_text)

----------------------------------------------------------------------------
(* end_interview refused by the state machine *)

\* C38: an end_interview that fails because complete cannot be entered from
\* the session's state leaves the session as it was before the call,
\* completed_at included: no field changes and no timestamp is stored
C38_RefusedEndLeavesSession ==
    (/\ OnSession
     /\ last.op = "end_interview"
     /\ last.exc = "StateTransitionError")
    => /\ After = Before
       /\ "completed_at" \notin last.stamped

----------------------------------------------------------------------------
(* A declined follow-up *)

\* C39: when the follow-up decider returns a decision with should_followup
\* false, the call appends and delivers no follow-up: it adapts the
\* difficulty and asks the next core question or completes the interview
C39_DeclinedFollowupNotAsked ==
    (/\ OnSession
     /\ last.op = "submit_response"
     /\ last.followup # NoRec
     /\ ~last.followup.should_followup)
    => /\ last.action \in {"question", "complete"}
       /\ After.total_followups_asked = Before.total_followups_asked
       /\ \A i \in Len(Before.questions) + 1..Len(After.questions) :
                ~After.questions[i].is_followup
       /\ Len(After.difficulty_history) = Len(Before.difficulty_history) + 1

----------------------------------------------------------------------------
(* Asking for the report again *)

\* C40: a report request on a session that is complete, generating its
\* report or finished succeeds and returns the report
C40_ReportAgain ==
    (/\ OnSession
     /\ last.op = "get_report"
     /\ Before.state \in {"complete", "generating_report", "finished"})
    => /\ last.exc = "none"
       /\ last.action = "report"

====
